---------------------------- MODULE Spec2Model ----------------------------
(***************************************************************************)
(* Model of the GTM transaction table of src/gtm/main/gtm_txn.c: the slot  *)
(* array, the list of open transactions, the GXID generator and the        *)
(* request handlers (begin, commit, rollback, prepare, reap), executed by  *)
(* worker threads whose steps are the critical sections of the C code.     *)
(***************************************************************************)
EXTENDS Integers, Sequences, FiniteSets, TLC

(***************************************************************************)
(* Bounds of the model and program constants.                              *)
(***************************************************************************)
\* size of gt_transactions_array (16384 in the program)
GTM_MAX_GLOBAL_TRANSACTIONS == 3
\* width of a GlobalTransactionId in bits (32 in the program)
GxidBits == 4
\* GXIDs between two writes of the control file (CONTROL_INTERVAL)
CONTROL_INTERVAL == 2
\* requests served in one behaviour of the sequential specifications
MaxRequestsSeq == 5
\* requests served in one behaviour of the concurrent specifications
MaxRequestsConc == 3

GxidModulus == 2 ^ GxidBits
MaxGlobalTransactionId == GxidModulus - 1
InvalidGlobalTransactionId == 0
FirstNormalGlobalTransactionId == 3
InvalidTransactionHandle == -1
\* a NULL GTM_TransactionInfo pointer; a non-NULL one is the slot's index
NULL == InvalidTransactionHandle
\* a NULL char pointer (gti_gid, nodestring)
NULLSTR == "<NULL>"

Gxids == 0 .. MaxGlobalTransactionId
Handles == 0 .. (GTM_MAX_GLOBAL_TRANSACTIONS - 1)

(***************************************************************************)
(* GXID arithmetic: 32-bit unsigned values compared by signed difference.  *)
(***************************************************************************)
GxidWrap(x) == x % GxidModulus

\* (int32) (id1 - id2)
SignedDiff(id1, id2) ==
    LET d == GxidWrap(id1 - id2 + GxidModulus)
    IN  IF 2 * d >= GxidModulus THEN d - GxidModulus ELSE d

GlobalTransactionIdIsValid(x) == x # InvalidGlobalTransactionId
GlobalTransactionIdIsNormal(x) == x >= FirstNormalGlobalTransactionId
GlobalTransactionIdEquals(a, b) == a = b
GlobalTransactionIdFollows(a, b) == SignedDiff(a, b) > 0
GlobalTransactionIdFollowsOrEquals(a, b) == SignedDiff(a, b) >= 0
GlobalTransactionIdPrecedes(a, b) == SignedDiff(a, b) < 0
GlobalTransactionIdPrecedesOrEquals(a, b) == SignedDiff(a, b) =< 0

\* (dest)++, skipping the reserved values below FirstNormal on wrap
GlobalTransactionIdAdvance(x) ==
    LET n == GxidWrap(x + 1)
    IN  IF n < FirstNormalGlobalTransactionId
        THEN FirstNormalGlobalTransactionId ELSE n

(***************************************************************************)
(* Sequence helpers (the gtm_List operations the file uses).               *)
(***************************************************************************)
Range(s) == {s[i] : i \in 1 .. Len(s)}

\* number of positions of s holding x
Count(s, x) == Cardinality({i \in 1 .. Len(s) : s[i] = x})

\* gtm_list_delete: delete the first cell holding x, if any
gtm_list_delete(s, x) ==
    IF x \notin Range(s) THEN s
    ELSE LET p == CHOOSE i \in 1 .. Len(s) :
                      s[i] = x /\ \A j \in 1 .. (i - 1) : s[j] # x
         IN  SubSeq(s, 1, p - 1) \o SubSeq(s, p + 1, Len(s))

(***************************************************************************)
(* State.                                                                  *)
(***************************************************************************)
VARIABLES
    slots,                  \* GTMTransactions.gt_transactions_array
    open_list,              \* GTMTransactions.gt_open_transactions
    gt_lastslot,            \* GTMTransactions.gt_lastslot
    gt_nextXid,             \* GTMTransactions.gt_nextXid
    gt_latestCompletedXid,  \* GTMTransactions.gt_latestCompletedXid
    gt_gtm_state,           \* GTMTransactions.gt_gtm_state
    ControlXid,             \* GXID of the last decision to write the control file
    ControlFile,            \* the GXID in the control file, once written
    standby,                \* Recovery_IsStandby(): the node runs as GTM standby
    crashed,                \* the process died (failed Assert / NULL dereference)
    pc,                     \* per worker thread: position in its handler
    req,                    \* per worker thread: the request and its locals
    nreq,                   \* requests received so far
    locks,                  \* per worker thread: the locks it holds
    assigned,               \* history: GXIDs handed out by the generator, in order
    removed,                \* history: per gti_gxid, the slots removed carrying it
    seq_calls,              \* the calls made into the sequence manager, in order
    standby_conn,           \* thr_conn->standby: a standby is connected
    Backup_synchronously,   \* the configuration option of that name
    chan,                   \* mirror calls sent to the standby, not yet replayed
    sb                      \* the transaction table of the standby

vars == <<slots, open_list, gt_lastslot, gt_nextXid, gt_latestCompletedXid,
          gt_gtm_state, ControlXid, ControlFile, standby, crashed, pc, req, nreq,
          locks, assigned, removed, seq_calls, standby_conn, Backup_synchronously,
          chan, sb>>

tableVars == <<slots, open_list, gt_lastslot, gt_latestCompletedXid>>
mirrorVars == <<standby_conn, Backup_synchronously, chan, sb>>
genVars == <<gt_nextXid, gt_gtm_state, ControlXid, ControlFile, standby, mirrorVars>>
histVars == <<assigned, removed, seq_calls>>


Threads == {1, 2}

\* the least element of a non-empty set of integers
MinOf(S) == CHOOSE x \in S : \A y \in S : x =< y

(***************************************************************************)
(* A transaction slot (GTM_TransactionInfo).                               *)
(***************************************************************************)
\* a slot of the array after memset(&GTMTransactions, 0, ...)
ZeroSlot ==
    [in_use |-> FALSE, gxid |-> InvalidGlobalTransactionId,
     state |-> "GTM_TXN_STARTING", client_id |-> 0, proxy_client_id |-> 0,
     session_id |-> "", gid |-> NULLSTR, nodestring |-> NULLSTR,
     created_seqs |-> <<>>, dropped_seqs |-> <<>>, altered_seqs |-> <<>>]

GTM_TransactionInfo_Init(old, client_id, connid, global_sessionid) ==
    [old EXCEPT
        !.gxid = InvalidGlobalTransactionId,
        !.state = "GTM_TXN_STARTING",
        !.in_use = TRUE,
        !.session_id = IF global_sessionid # NULLSTR THEN global_sessionid ELSE "",
        !.nodestring = NULLSTR,
        !.gid = NULLSTR,
        !.client_id = client_id,
        !.proxy_client_id = connid]

\* the slot after cleanup: marked free; gti_gxid, the session and the client stay
\* a cleanup that forgets to release the slot
Clean_KeepsInUse(old) ==
    [old EXCEPT
        !.created_seqs = <<>>,
        !.dropped_seqs = <<>>,
        !.altered_seqs = <<>>,
        !.state = "GTM_TXN_ABORTED",
        !.gid = NULLSTR,
        !.nodestring = NULLSTR]

\* the calls a hook makes, one for each sequence of the list, in list order
HookCalls(hook, seqs) == [i \in 1 .. Len(seqs) |-> <<hook, seqs[i]>>]

\* the calls GTM_TransactionInfo_Clean makes into the sequence manager
CleanHooks(old) ==
    IF old.state = "GTM_TXN_ABORT_IN_PROGRESS"
    THEN HookCalls("GTM_SeqRemoveCreated", old.created_seqs)
           \o HookCalls("GTM_SeqRestoreDropped", old.dropped_seqs)
           \o HookCalls("GTM_SeqRestoreAltered", old.altered_seqs)
    ELSE IF old.state = "GTM_TXN_COMMIT_IN_PROGRESS"
    THEN HookCalls("GTM_SeqRemoveDropped", old.dropped_seqs)
           \o HookCalls("GTM_SeqRemoveAltered", old.altered_seqs)
    ELSE <<>>

GTM_TransactionInfo_Clean(old) ==
    [old EXCEPT
        !.created_seqs = <<>>,
        !.dropped_seqs = <<>>,
        !.altered_seqs = <<>>,
        !.state = "GTM_TXN_ABORTED",
        !.in_use = FALSE,
        !.gid = NULLSTR,
        !.nodestring = NULLSTR]

(***************************************************************************)
(* Lookups over the list of open transactions.                             *)
(***************************************************************************)
\* positions of the open list whose slot carries gxid
GxidCells(sl, ol, gxid) ==
    {i \in 1 .. Len(ol) : GlobalTransactionIdEquals(sl[ol[i]].gxid, gxid)}

GTM_GXIDToHandle_Internal(sl, ol, gxid) ==
    IF ~GlobalTransactionIdIsValid(gxid) THEN InvalidTransactionHandle
    ELSE IF GxidCells(sl, ol, gxid) = {} THEN InvalidTransactionHandle
    ELSE ol[MinOf(GxidCells(sl, ol, gxid))]

GTM_GXIDToHandle(gxid) == GTM_GXIDToHandle_Internal(slots, open_list, gxid)

\* a test that finds no waited transaction in progress
IsGXIDInProgress_Never(gxid) == FALSE

\* a test that finds every waited transaction in progress
IsGXIDInProgress_Always(gxid) == TRUE

GTM_IsGXIDInProgress(gxid) ==
    GTM_GXIDToHandle_Internal(slots, open_list, gxid) # InvalidTransactionHandle

SessionCells(sl, ol, sid) == {i \in 1 .. Len(ol) : sl[ol[i]].session_id = sid}

\* a lookup that never finds the session
SessionIDToHandle_NeverFound(sl, ol, global_sessionid) == InvalidTransactionHandle

GTM_GlobalSessionIDToHandle(sl, ol, global_sessionid) ==
    IF global_sessionid = NULLSTR \/ global_sessionid = ""
    THEN InvalidTransactionHandle
    ELSE IF SessionCells(sl, ol, global_sessionid) = {}
    THEN InvalidTransactionHandle
    ELSE ol[MinOf(SessionCells(sl, ol, global_sessionid))]

GidCells(sl, ol, gid) ==
    {i \in 1 .. Len(ol) : sl[ol[i]].gid # NULLSTR /\ sl[ol[i]].gid = gid}

GTM_GIDToHandle_In(sl, ol, gid) ==
    IF GidCells(sl, ol, gid) = {} THEN InvalidTransactionHandle
    ELSE ol[MinOf(GidCells(sl, ol, gid))]

GTM_GIDToHandle(gid) == GTM_GIDToHandle_In(slots, open_list, gid)

\* The range test lets handle = GTM_MAX_GLOBAL_TRANSACTIONS through, and
\* gti_in_use is then read one element past the end of the array: beyond is
\* what that read finds. The result is the slot's index (the index past the
\* array included), or NULL.
HandleToTransactionInfo_Reads(sl, handle, beyond) ==
    IF handle < 0 \/ handle > GTM_MAX_GLOBAL_TRANSACTIONS THEN NULL
    ELSE IF ~(IF handle \in Handles THEN sl[handle].in_use ELSE beyond) THEN NULL
    ELSE handle

\* the call when the memory past the array, if it is read, holds a zero byte
GTM_HandleToTransactionInfo_In(sl, handle) ==
    HandleToTransactionInfo_Reads(sl, handle, FALSE)

GTM_HandleToTransactionInfo(handle) == GTM_HandleToTransactionInfo_In(slots, handle)

(***************************************************************************)
(* GTM_BeginTransactionMulti, the whole loop under gt_TransArrayLock.      *)
(***************************************************************************)
\* a search that starts at gt_lastslot itself
FindFreeSlot_FromLast(sl, lastslot) ==
    LET startslot == IF lastslot < 0 THEN 0 ELSE lastslot
        pos(jj) == (startslot + jj) % GTM_MAX_GLOBAL_TRANSACTIONS
        free == {jj \in 0 .. (GTM_MAX_GLOBAL_TRANSACTIONS - 1) : ~sl[pos(jj)].in_use}
    IN  IF free = {} THEN [found |-> "full", ii |-> startslot]
        ELSE [found |-> "slot", ii |-> pos(MinOf(free))]

\* a search that ignores gt_lastslot and takes the free slot of least index
FindFreeSlot_FromZero(sl, lastslot) ==
    LET free == {h \in Handles : ~sl[h].in_use}
    IN  IF free = {} THEN [found |-> "full", ii |-> 0]
        ELSE [found |-> "slot", ii |-> MinOf(free)]

\* the slot search of one begin: the first free slot from gt_lastslot + 1 on
FindFreeSlot(sl, lastslot) ==
    LET startslot == IF lastslot + 1 >= GTM_MAX_GLOBAL_TRANSACTIONS
                     THEN 0 ELSE lastslot + 1
        pos(jj) == (startslot + jj) % GTM_MAX_GLOBAL_TRANSACTIONS
        stops == {jj \in 0 .. (GTM_MAX_GLOBAL_TRANSACTIONS - 1) :
                     ~sl[pos(jj)].in_use \/ pos(jj) = lastslot}
    IN  IF stops = {} THEN [found |-> "none", ii |-> startslot]
        ELSE IF ~sl[pos(MinOf(stops))].in_use
        THEN [found |-> "slot", ii |-> pos(MinOf(stops))]
        ELSE [found |-> "full", ii |-> pos(MinOf(stops))]

RECURSIVE BeginLoop(_, _, _, _, _, _)
\* tb = [slots, open, last]; returns the table, txns[] and how the loop ended
BeginLoop(tb, global_sessionid, connid, client_id, kk, txns) ==
    IF kk > Len(global_sessionid)
    THEN [tb |-> tb, txns |-> txns, result |-> "ok"]
    ELSE
      LET txn == GTM_GlobalSessionIDToHandle(tb.slots, tb.open, global_sessionid[kk])
          f == FindFreeSlot(tb.slots, tb.last)
      IN  IF txn # InvalidTransactionHandle
          THEN IF GTM_HandleToTransactionInfo_In(tb.slots, txn) = NULL
               THEN [tb |-> tb, txns |-> txns, result |-> "crash"]
               ELSE BeginLoop(tb, global_sessionid, connid, client_id, kk + 1,
                              Append(txns, txn))
          ELSE IF f.found = "full"
          THEN [tb |-> tb, txns |-> txns, result |-> "error"]
          ELSE IF f.found = "none"
          THEN [tb |-> tb, txns |-> txns, result |-> "crash"]
          ELSE BeginLoop(
                 [slots |-> [tb.slots EXCEPT ![f.ii] =
                               GTM_TransactionInfo_Init(tb.slots[f.ii], client_id,
                                                        connid[kk], global_sessionid[kk])],
                  open |-> Append(tb.open, f.ii),
                  last |-> f.ii],
                 global_sessionid, connid, client_id, kk + 1, Append(txns, f.ii))

GTM_BeginTransactionMulti(global_sessionid, connid, client_id) ==
    BeginLoop([slots |-> slots, open |-> open_list, last |-> gt_lastslot],
              global_sessionid, connid, client_id, 1, <<>>)

(***************************************************************************)
(* Removal: GTM_RemoveTransInfoMulti and GTM_RemoveAllTransInfos, each the *)
(* whole loop under gt_TransArrayLock in write mode.                       *)
(***************************************************************************)
\* gt_latestCompletedXid after the removal of a slot carrying gxid
LatestCompletedAfter(latest, gxid) ==
    IF GlobalTransactionIdIsNormal(gxid)
       /\ GlobalTransactionIdFollowsOrEquals(gxid, latest)
    THEN gxid ELSE latest

\* one slot leaves the table; tb = [slots, open, latest, removed, seq_calls]
RemoveOne(tb, s) ==
    [slots |-> [tb.slots EXCEPT ![s] = GTM_TransactionInfo_Clean(tb.slots[s])],
     open |-> gtm_list_delete(tb.open, s),
     latest |-> LatestCompletedAfter(tb.latest, tb.slots[s].gxid),
     removed |-> [tb.removed EXCEPT ![tb.slots[s].gxid] = @ + 1],
     seq_calls |-> tb.seq_calls \o CleanHooks(tb.slots[s])]

RECURSIVE RemoveLoop(_, _, _)
RemoveLoop(tb, gtm_txninfo, ii) ==
    IF ii > Len(gtm_txninfo) THEN tb
    ELSE IF gtm_txninfo[ii] = NULL THEN RemoveLoop(tb, gtm_txninfo, ii + 1)
    ELSE RemoveLoop(RemoveOne(tb, gtm_txninfo[ii]), gtm_txninfo, ii + 1)

GTM_RemoveTransInfoMulti(gtm_txninfo) ==
    RemoveLoop([slots |-> slots, open |-> open_list,
                latest |-> gt_latestCompletedXid, removed |-> removed,
              seq_calls |-> seq_calls],
               gtm_txninfo, 1)

\* a reaper that does not look at the state of the transaction
ReapMatches_AnyState(slot, client_id, backend_id) ==
    /\ slot.in_use
    /\ slot.client_id = client_id
    /\ (slot.proxy_client_id = backend_id \/ backend_id = -1)

\* a reaper that does not look at the proxy connection of the transaction
ReapMatches_AnyBackend(slot, client_id, backend_id) ==
    /\ slot.in_use
    /\ slot.state # "GTM_TXN_PREPARED"
    /\ slot.state # "GTM_TXN_PREPARE_IN_PROGRESS"
    /\ slot.client_id = client_id

\* the test of GTM_RemoveAllTransInfos on one cell of the list
ReapMatches(slot, client_id, backend_id) ==
    /\ slot.in_use
    /\ slot.state # "GTM_TXN_PREPARED"
    /\ slot.state # "GTM_TXN_PREPARE_IN_PROGRESS"
    /\ slot.client_id = client_id
    /\ (slot.proxy_client_id = backend_id \/ backend_id = -1)

RECURSIVE ReapLoop(_, _, _, _)
\* cell is the position of the walk in tb.open
ReapLoop(tb, cell, client_id, backend_id) ==
    IF cell > Len(tb.open) THEN tb
    ELSE IF ReapMatches(tb.slots[tb.open[cell]], client_id, backend_id)
    THEN ReapLoop(
           [RemoveOne(tb, tb.open[cell]) EXCEPT
               !.open = SubSeq(tb.open, 1, cell - 1)
                          \o SubSeq(tb.open, cell + 1, Len(tb.open))],
           cell, client_id, backend_id)
    ELSE ReapLoop(tb, cell + 1, client_id, backend_id)

GTM_RemoveAllTransInfos(client_id, backend_id) ==
    ReapLoop([slots |-> slots, open |-> open_list,
              latest |-> gt_latestCompletedXid, removed |-> removed,
              seq_calls |-> seq_calls],
             1, client_id, backend_id)


(***************************************************************************)
(* GTM_GetGlobalTransactionIdMulti, the whole loop under gt_XidGenLock.    *)
(***************************************************************************)
\* the wrap-around limits: never computed, they stay as GTM_InitTxnManager set them
gt_xidVacLimit == InvalidGlobalTransactionId
gt_xidStopLimit == InvalidGlobalTransactionId

\* ereport(ERROR, "database is not accepting commands ...")
XidStopped(xid) ==
    /\ GlobalTransactionIdFollowsOrEquals(xid, gt_xidVacLimit)
    /\ GlobalTransactionIdIsValid(gt_xidVacLimit)
    /\ GlobalTransactionIdFollowsOrEquals(xid, gt_xidStopLimit)

\* a generator that hands out gt_nextXid and forgets to advance it
NextXid_NotAdvanced(xid) == xid

\* a generator that steps gt_nextXid backwards
NextXid_Backwards(xid) == GxidWrap(xid + GxidModulus - 1)

\* gt_nextXid after xid has been handed out
NextXidAfter(xid) == GlobalTransactionIdAdvance(xid)

\* whether the control file is due after the call's last assignment xid
NeedSaveControl(xid, control) ==
    /\ GlobalTransactionIdIsValid(xid)
    /\ (GxidWrap(xid - control + GxidModulus) > CONTROL_INTERVAL \/ xid < control)

RECURSIVE AssignLoop(_, _, _)
\* g = [slots, next, xid, gxids, new_handles, assigned, result]
AssignLoop(g, handles, ii) ==
    IF ii > Len(handles) THEN g
    ELSE
      LET info == GTM_HandleToTransactionInfo_In(g.slots, handles[ii])
          xid == g.next
      IN  IF info = NULL THEN [g EXCEPT !.result = "crash"]
          ELSE IF GlobalTransactionIdIsValid(g.slots[info].gxid)
          THEN AssignLoop([g EXCEPT !.gxids = Append(@, g.slots[info].gxid)],
                          handles, ii + 1)
          ELSE IF XidStopped(xid) THEN [g EXCEPT !.result = "error"]
          ELSE AssignLoop(
                 [g EXCEPT !.next = NextXidAfter(xid),
                           !.xid = xid,
                           !.slots[info].gxid = xid,
                           !.gxids = Append(@, xid),
                           !.new_handles = Append(@, info),
                           !.assigned = Append(@, xid)],
                 handles, ii + 1)

\* a generator that serves requests on a standby and during shutdown
GetGlobalTransactionIdMulti_NeverRefuses(handles) ==
    AssignLoop([slots |-> slots, next |-> gt_nextXid,
                xid |-> InvalidGlobalTransactionId, gxids |-> <<>>,
                new_handles |-> <<>>, assigned |-> assigned, result |-> "ok"],
               handles, 1)

GTM_GetGlobalTransactionIdMulti(handles) ==
    IF standby \/ gt_gtm_state = "GTM_SHUTTING_DOWN"
    THEN [slots |-> slots, next |-> gt_nextXid, xid |-> InvalidGlobalTransactionId,
          gxids |-> <<>>, new_handles |-> <<>>, assigned |-> assigned,
          result |-> "error"]
    ELSE AssignLoop([slots |-> slots, next |-> gt_nextXid,
                     xid |-> InvalidGlobalTransactionId, gxids |-> <<>>,
                     new_handles |-> <<>>, assigned |-> assigned, result |-> "ok"],
                    handles, 1)

(***************************************************************************)
(* Worker threads. Thread t serves the client whose identifier is t        *)
(* (thr_client_id); req[t] is the request being served, or the last one.   *)
(***************************************************************************)
\* no mirror call
NoCall == [call |-> "none"]

NoReq ==
    [op |-> "none", sess |-> <<>>, connid |-> <<>>, gxid |-> <<>>,
     waited |-> <<>>, gid |-> NULLSTR, nodestring |-> NULLSTR, backend |-> 0,
     txn |-> <<>>, info |-> <<>>, status |-> <<>>, out |-> <<>>,
     remove |-> <<>>, ii |-> 0, jj |-> 0, retry |-> FALSE, result |-> "none",
     call |-> NoCall, reply |-> "none", mirrored |-> FALSE, synced |-> FALSE,
     held |-> {}]

\* a thread that holds no lock: held are the locks with their modes, cur is
\* the lock of the section the thread is in, at its position when it took it
NoLocks == [held |-> {}, cur |-> <<>>, at |-> <<>>]

\* GTM_InitTxnManager on the standby
StandbyInit ==
    [slots |-> [h \in Handles |-> ZeroSlot], open |-> <<>>, last |-> -1,
     next |-> FirstNormalGlobalTransactionId,
     latest |-> FirstNormalGlobalTransactionId,
     control |-> FirstNormalGlobalTransactionId,
     file |-> InvalidGlobalTransactionId,
     thr_client_id |-> 0,
     failed |-> FALSE,
     pc |-> "idle",
     held |-> {}]

\* GTM_InitTxnManager
Init ==
    /\ slots = [h \in Handles |-> ZeroSlot]
    /\ open_list = <<>>
    /\ gt_lastslot = -1
    /\ gt_nextXid = FirstNormalGlobalTransactionId
    /\ gt_latestCompletedXid = FirstNormalGlobalTransactionId
    /\ gt_gtm_state = "GTM_STARTING"
    /\ ControlXid = FirstNormalGlobalTransactionId
    /\ ControlFile = InvalidGlobalTransactionId
    /\ standby = FALSE
    /\ crashed = FALSE
    /\ pc = [t \in Threads |-> "idle"]
    /\ req = [t \in Threads |-> NoReq]
    /\ nreq = [t \in Threads |-> 0]
    /\ locks = [t \in Threads |-> NoLocks]
    /\ assigned = <<>>
    /\ removed = [g \in Gxids |-> 0]
    /\ seq_calls = <<>>
    /\ standby_conn = FALSE
    /\ Backup_synchronously = FALSE
    /\ chan = <<>>
    /\ sb = StandbyInit

\* startup: the GXID restored from the control file becomes gt_nextXid
GTM_SetNextGlobalTransactionId(gxid) ==
    /\ gt_gtm_state = "GTM_STARTING"
    /\ gt_nextXid' = gxid
    /\ gt_gtm_state' = "GTM_RUNNING"
    /\ UNCHANGED <<tableVars, ControlXid, ControlFile, standby, mirrorVars, crashed, pc, req,
                   nreq, locks, histVars>>

\* the node is started as a GTM standby (Recovery_StandbySetStandby(true))
StartupAsStandby ==
    /\ gt_gtm_state = "GTM_STARTING"
    /\ ~standby
    /\ standby' = TRUE
    /\ UNCHANGED <<tableVars, gt_nextXid, gt_gtm_state, ControlXid, ControlFile,
                   mirrorVars, crashed, pc, req, nreq, locks, histVars>>

\* the standby is promoted to GTM master (Recovery_StandbySetStandby(false))
Promote ==
    /\ gt_gtm_state = "GTM_RUNNING"
    /\ standby
    /\ standby' = FALSE
    /\ UNCHANGED <<tableVars, gt_nextXid, gt_gtm_state, ControlXid, ControlFile,
                   mirrorVars, crashed, pc, req, nreq, locks, histVars>>

\* GTM_SetShuttingDown, under gt_XidGenLock
GTM_SetShuttingDown ==
    /\ gt_gtm_state = "GTM_RUNNING"
    /\ gt_gtm_state' = "GTM_SHUTTING_DOWN"
    /\ UNCHANGED <<tableVars, gt_nextXid, ControlXid, ControlFile, standby,
                   mirrorVars, crashed,
                   pc, req, nreq, locks, histVars>>

\* thread t is between two requests and reads the next message; a budget of 0
\* leaves the number of requests open
Receives(t, budget) ==
    /\ ~crashed
    /\ gt_gtm_state # "GTM_STARTING"
    /\ pc[t] = "idle"
    /\ budget > 0 => nreq[1] + nreq[2] < budget
    /\ nreq' = IF budget > 0 THEN [nreq EXCEPT ![t] = @ + 1] ELSE nreq
    /\ UNCHANGED locks

\* thread t is at position p of its handler
At(t, p) == ~crashed /\ pc[t] = p

\* the handler ends: crashed, failed with ereport(ERROR), or replied
Ends(result) == IF result = "crash" THEN TRUE ELSE crashed

(***************************************************************************)
(* The end of a handler on the primary: the mirror call to the standby,    *)
(* the wait for the standby, and the reply to the client.                  *)
(***************************************************************************)
\* myport->remote_type: client 2 is a GTM proxy, client 1 is not
remote_type(t) == IF t = 2 THEN "GTM_NODE_GTM_PROXY" ELSE "GTM_NODE_DEFAULT"

\* a call to the standby: the operands the bkup_ function ships
BkupCall(call, gxid, sess, client_id, connid, gid, nodestring) ==
    [call |-> call, gxid |-> gxid, sess |-> sess, client_id |-> client_id,
     connid |-> connid, gid |-> gid, nodestring |-> nodestring]

\* a handler that never calls the standby
MirrorCallOf_Never(t, r) == NoCall

\* the call the handler of request r makes when a standby is connected, r being
\* the request as it is replied; a handler left by ereport(ERROR) makes none
MirrorCallOf(t, r) ==
    IF r.result # "ok" THEN NoCall
    ELSE CASE r.op = "MSG_TXN_BEGIN" ->
                BkupCall("bkup_begin_transaction", <<>>, r.sess, <<t>>, <<-1>>,
                         NULLSTR, NULLSTR)
           [] r.op = "MSG_TXN_BEGIN_GETGXID" ->
                BkupCall("bkup_begin_transaction_gxid", r.out, r.sess, <<t>>, <<-1>>,
                         NULLSTR, NULLSTR)
           [] r.op = "MSG_TXN_BEGIN_GETGXID_MULTI" ->
                BkupCall("bkup_begin_transaction_multi", r.out, r.sess,
                         [i \in 1 .. Len(r.sess) |-> t], r.connid, NULLSTR, NULLSTR)
           [] r.op = "MSG_TXN_GET_GID_DATA" ->
                BkupCall("bkup_begin_transaction_gxid", <<r.out[1]>>, <<NULLSTR>>,
                         <<-1>>, <<-1>>, NULLSTR, NULLSTR)
           [] r.op = "MSG_TXN_COMMIT" ->
                IF r.status[1] = "STATUS_OK"
                THEN BkupCall("bkup_commit_transaction", r.gxid, <<>>, <<>>, <<>>,
                              NULLSTR, NULLSTR)
                ELSE NoCall
           [] r.op = "MSG_TXN_COMMIT_PREPARED" ->
                IF r.status[1] = "STATUS_OK"
                THEN BkupCall("bkup_commit_prepared_transaction", r.gxid, <<>>, <<>>,
                              <<>>, NULLSTR, NULLSTR)
                ELSE NoCall
           [] r.op = "MSG_TXN_COMMIT_MULTI" ->
                BkupCall("bkup_commit_transaction_multi", r.gxid, <<>>, <<>>, <<>>,
                         NULLSTR, NULLSTR)
           [] r.op = "MSG_TXN_ROLLBACK" ->
                BkupCall("bkup_abort_transaction", r.gxid, <<>>, <<>>, <<>>,
                         NULLSTR, NULLSTR)
           [] r.op = "MSG_TXN_ROLLBACK_MULTI" ->
                BkupCall("bkup_abort_transaction_multi", r.gxid, <<>>, <<>>, <<>>,
                         NULLSTR, NULLSTR)
           [] r.op = "MSG_TXN_START_PREPARED" ->
                BkupCall("backup_start_prepared_transaction", r.gxid, <<>>, <<>>,
                         <<>>, r.gid, r.nodestring)
           [] r.op = "MSG_TXN_PREPARE" ->
                BkupCall("bkup_prepare_transaction", r.gxid, <<>>, <<>>, <<>>,
                         NULLSTR, NULLSTR)
           [] OTHER -> NoCall

\* the handler of thread t has made its local changes and r is what it will
\* reply: with a standby connected it calls the standby first
Mirrors(t, r) == standby_conn /\ MirrorCallOf(t, r) # NoCall

AfterLocal(t, r) ==
    IF Mirrors(t, r)
    THEN [r EXCEPT !.result = "pending", !.reply = r.result,
                   !.call = MirrorCallOf(t, r)]
    ELSE r

HandlerEnds(t, r) ==
    /\ req' = [req EXCEPT ![t] = AfterLocal(t, r)]
    /\ pc' = [pc EXCEPT ![t] = IF Mirrors(t, r) THEN "mirror" ELSE "idle"]

\* the bkup_ call: the message is put on the connection to the standby
MirrorCall(t) ==
    /\ At(t, "mirror")
    /\ chan' = Append(chan, req[t].call)
    /\ req' = [req EXCEPT ![t].mirrored = TRUE]
    /\ pc' = [pc EXCEPT ![t] =
                IF /\ Backup_synchronously
                   /\ remote_type(t) # "GTM_NODE_GTM_PROXY"
                   /\ req[t].op # "MSG_TXN_GET_GID_DATA"
                THEN "sync" ELSE "reply"]
    /\ UNCHANGED <<tableVars, gt_nextXid, gt_gtm_state, ControlXid, ControlFile,
                   standby, standby_conn, Backup_synchronously, sb, crashed, nreq, locks,
                   histVars>>

\* gtm_sync_standby returns once the standby has answered, which it does when
\* it has processed every message sent before
gtm_sync_standby(t) ==
    /\ At(t, "sync")
    /\ chan = <<>>
    /\ req' = [req EXCEPT ![t].synced = TRUE]
    /\ pc' = [pc EXCEPT ![t] = "reply"]
    /\ UNCHANGED <<tableVars, genVars, crashed, nreq, locks, histVars>>

\* pq_endmessage: the reply to the client is written
Reply(t) ==
    /\ At(t, "reply")
    /\ req' = [req EXCEPT ![t].result = req[t].reply]
    /\ pc' = [pc EXCEPT ![t] = "idle"]
    /\ UNCHANGED <<tableVars, genVars, crashed, nreq, locks, histVars>>

\* MSG_TXN_BEGIN: ProcessBeginTransactionCommand
ProcessBeginTransactionCommand(t, budget, global_sessionid) ==
    LET r == GTM_BeginTransactionMulti(<<global_sessionid>>, <<-1>>, t)
    IN  /\ Receives(t, budget)
        /\ slots' = r.tb.slots
        /\ open_list' = r.tb.open
        /\ gt_lastslot' = r.tb.last
        /\ crashed' = Ends(r.result)
        /\ HandlerEnds(t, [NoReq EXCEPT !.op = "MSG_TXN_BEGIN",
                                        !.sess = <<global_sessionid>>,
                                        !.connid = <<-1>>,
                                        !.txn = r.txns,
                                        !.result = r.result])
        /\ UNCHANGED <<gt_latestCompletedXid, genVars, histVars>>

\* MSG_TXN_BEGIN_GETGXID and MSG_TXN_BEGIN_GETGXID_MULTI, first half:
\* GTM_BeginTransactionMulti for the sessions of the message
ProcessBeginTransactionGetGXIDCommand(t, budget, op, global_sessionid, connid) ==
    LET r == GTM_BeginTransactionMulti(global_sessionid, connid, t)
    IN  /\ Receives(t, budget)
        /\ Len(global_sessionid) = Len(connid)
        /\ slots' = r.tb.slots
        /\ open_list' = r.tb.open
        /\ gt_lastslot' = r.tb.last
        /\ crashed' = Ends(r.result)
        /\ pc' = [pc EXCEPT ![t] = IF r.result = "ok" THEN "getgxid" ELSE "idle"]
        /\ req' = [req EXCEPT ![t] =
                     [NoReq EXCEPT !.op = op,
                                   !.sess = global_sessionid,
                                   !.connid = connid,
                                   !.txn = r.txns,
                                   !.result = IF r.result = "ok" THEN "pending"
                                              ELSE r.result]]
        /\ UNCHANGED <<gt_latestCompletedXid, genVars, histVars>>

\* where the handler of op goes on after its GXIDs were assigned: the begin
\* handlers reply; MSG_TXN_GET_GID_DATA reads the prepared transaction next
AfterGetGXID(op, result) ==
    IF op = "MSG_TXN_GET_GID_DATA" /\ result = "ok" THEN "gid_data" ELSE "idle"

\* where the handler goes on once the GXIDs are assigned and the control file,
\* if it was due, is written; r is the request after the assignment
AfterSave(r) ==
    IF r.call # NoCall /\ ~r.mirrored THEN "mirror"
    ELSE IF r.result = "pending" THEN AfterGetGXID(r.op, "ok")
    ELSE "idle"

\* the handlers that call GTM_GetGlobalTransactionId for one transaction leave
\* by ereport(ERROR) when the GXID they get is InvalidGlobalTransactionId; the
\* handler of MSG_TXN_BEGIN_GETGXID_MULTI looks at the return value only
HandlerChecksGXID(op, g) ==
    IF /\ g.result = "ok"
       /\ op \in {"MSG_TXN_BEGIN_GETGXID", "MSG_TXN_GET_GID_DATA"}
       /\ g.gxids = <<InvalidGlobalTransactionId>>
    THEN "error" ELSE g.result

\* second half: GTM_GetGlobalTransactionIdMulti for the handles, then the reply.
\* The call decides under gt_XidGenLock whether the control file is due and
\* calls SaveControlInfo after releasing the lock: with unlocked_save the write
\* is a step of its own, otherwise it is taken together with the call.
GetGXIDLocked(t, unlocked_save) ==
    LET g == GTM_GetGlobalTransactionIdMulti(req[t].txn)
        save_control == g.result = "ok" /\ NeedSaveControl(g.xid, ControlXid)
        result == HandlerChecksGXID(req[t].op, g)
        after == IF AfterGetGXID(req[t].op, result) = "idle"
                 THEN AfterLocal(t, [req[t] EXCEPT !.out = g.gxids,
                                                   !.result = result])
                 ELSE [req[t] EXCEPT !.out = g.gxids, !.result = "pending"]
    IN  /\ At(t, "getgxid")
        /\ slots' = g.slots
        /\ gt_nextXid' = g.next
        /\ assigned' = g.assigned
        /\ ControlXid' = IF save_control THEN g.xid ELSE ControlXid
        /\ ControlFile' = IF save_control /\ ~unlocked_save THEN g.xid ELSE ControlFile
        /\ crashed' = Ends(g.result)
        /\ pc' = [pc EXCEPT ![t] = IF save_control /\ unlocked_save
                                   THEN "save_control"
                                   ELSE AfterSave(after)]
        /\ req' = [req EXCEPT ![t] = after]
        /\ UNCHANGED <<open_list, gt_lastslot, gt_latestCompletedXid, gt_gtm_state,
                       standby, mirrorVars, nreq, locks, removed, seq_calls>>

GetGXID(t) == GetGXIDLocked(t, FALSE)

\* what SaveControlInfo puts in the control file: the control GXID of the moment
ControlFileAfter(control) == control

\* SaveControlInfo(), called with no lock held
SaveControlInfo(t) ==
    /\ At(t, "save_control")
    /\ ControlFile' = ControlFileAfter(ControlXid)
    /\ pc' = [pc EXCEPT ![t] = AfterSave(req[t])]
    /\ UNCHANGED <<tableVars, gt_nextXid, gt_gtm_state, ControlXid, standby,
                   mirrorVars, crashed,
                   req, nreq, locks, histVars>>


(***************************************************************************)
(* Requests that name their transactions by GXID. Every handler first      *)
(* turns each GXID into a handle (GTM_GXIDToHandle, one read-locked scan   *)
(* per GXID) and then calls the lifecycle function.                        *)
(***************************************************************************)
\* the position that follows the lookups of the handler of op
AfterLookup(op) ==
    CASE op \in {"MSG_TXN_COMMIT", "MSG_TXN_COMMIT_MULTI", "MSG_TXN_COMMIT_PREPARED"}
           -> "commit_resolve"
      [] op \in {"MSG_TXN_ROLLBACK", "MSG_TXN_ROLLBACK_MULTI"} -> "rollback_resolve"
      [] op = "MSG_TXN_START_PREPARED" -> "start_prepared_resolve"
      [] op = "MSG_TXN_PREPARE" -> "prepare_resolve"

\* the last request of thread t was answered STATUS_DELAYED for some GXID
DelayedReply(t) ==
    /\ pc[t] = "idle"
    /\ req[t].op \in {"MSG_TXN_COMMIT", "MSG_TXN_COMMIT_PREPARED"}
    /\ "STATUS_DELAYED" \in Range(req[t].status)

\* a request arrives and its first GXID is looked up; the request is a retry if
\* it repeats the request of the same client that was just answered STATUS_DELAYED
ReceiveByGXID(t, budget, op, gxid, waited_xids, gid, nodestring) ==
    /\ Receives(t, budget)
    /\ Len(gxid) >= 1
    /\ req' = [req EXCEPT ![t] =
                 [NoReq EXCEPT !.op = op, !.gxid = gxid, !.waited = waited_xids,
                               !.gid = gid, !.nodestring = nodestring,
                               !.retry = /\ DelayedReply(t)
                                         /\ req[t].op = op
                                         /\ req[t].gxid = gxid
                                         /\ req[t].waited = waited_xids,
                               !.txn = <<GTM_GXIDToHandle(gxid[1])>>,
                               !.ii = 1, !.result = "pending"]]
    /\ pc' = [pc EXCEPT ![t] = IF Len(gxid) > 1 THEN "lookup" ELSE AfterLookup(op)]
    /\ UNCHANGED <<tableVars, genVars, crashed, histVars>>

\* the next GXID of a batch is looked up
LookupNext(t) ==
    /\ At(t, "lookup")
    /\ req' = [req EXCEPT ![t].txn =
                 Append(@, GTM_GXIDToHandle(req[t].gxid[Len(req[t].txn) + 1]))]
    /\ pc' = [pc EXCEPT ![t] = IF Len(req[t].txn) + 1 < Len(req[t].gxid)
                               THEN "lookup" ELSE AfterLookup(req[t].op)]
    /\ UNCHANGED <<tableVars, genVars, crashed, nreq, locks, histVars>>

\* the locals of a finished request that its reply does not carry are dropped
Replied(r, result) ==
    [r EXCEPT !.info = <<>>, !.remove = <<>>, !.ii = 0, !.jj = 0, !.result = result]

(***************************************************************************)
(* GTM_CommitTransactionMulti.                                             *)
(***************************************************************************)
\* element ii of the batch is done: on to the next one or to the removal
CommitNext(t, r) ==
    /\ req' = [req EXCEPT ![t] = [r EXCEPT !.ii = @ + 1, !.jj = 0]]
    /\ pc' = [pc EXCEPT ![t] = IF r.ii < Len(r.txn) THEN "commit_resolve"
                               ELSE "commit_remove"]

\* gtm_txninfo[ii] = GTM_HandleToTransactionInfo(txn[ii]), STATUS_ERROR if NULL
CommitResolve(t) ==
    LET r == req[t]
        info == GTM_HandleToTransactionInfo(r.txn[r.ii])
    IN  /\ At(t, "commit_resolve")
        /\ IF info = NULL
           THEN CommitNext(t, [r EXCEPT !.info = Append(@, NULL),
                                        !.status = Append(@, "STATUS_ERROR")])
           ELSE /\ req' = [req EXCEPT ![t].info = Append(@, info), ![t].jj = 1]
                /\ pc' = [pc EXCEPT ![t] = IF Len(r.waited) > 0 THEN "commit_wait"
                                           ELSE "commit_mark"]
        /\ UNCHANGED <<tableVars, genVars, crashed, nreq, locks, histVars>>

\* one turn of the loop over waited_xids: GTM_IsGXIDInProgress(waited_xids[jj])
CommitWait(t) ==
    LET r == req[t]
    IN  /\ At(t, "commit_wait")
        /\ IF GTM_IsGXIDInProgress(r.waited[r.jj])
           THEN CommitNext(t, [r EXCEPT !.status = Append(@, "STATUS_DELAYED")])
           ELSE /\ req' = [req EXCEPT ![t].jj = @ + 1]
                /\ pc' = [pc EXCEPT ![t] = IF r.jj < Len(r.waited) THEN "commit_wait"
                                           ELSE "commit_mark"]
        /\ UNCHANGED <<tableVars, genVars, crashed, nreq, locks, histVars>>

\* gti_state = GTM_TXN_COMMIT_IN_PROGRESS under gti_lock, STATUS_OK
CommitMark(t) ==
    LET r == req[t]
    IN  /\ At(t, "commit_mark")
        /\ slots' = [slots EXCEPT ![r.info[r.ii]].state = "GTM_TXN_COMMIT_IN_PROGRESS"]
        /\ CommitNext(t, [r EXCEPT !.status = Append(@, "STATUS_OK"),
                                   !.remove = Append(@, r.info[r.ii])])
        /\ UNCHANGED <<open_list, gt_lastslot, gt_latestCompletedXid, genVars,
                       crashed, nreq, locks, histVars>>

\* GTM_RemoveTransInfoMulti(remove_txninfo, remove_count), then the reply
CommitRemove(t) ==
    LET r == req[t]
        tb == GTM_RemoveTransInfoMulti(r.remove)
    IN  /\ At(t, "commit_remove")
        /\ slots' = tb.slots
        /\ open_list' = tb.open
        /\ gt_latestCompletedXid' = tb.latest
        /\ removed' = tb.removed
        /\ seq_calls' = tb.seq_calls
        /\ HandlerEnds(t, Replied(r, "ok"))
        /\ UNCHANGED <<gt_lastslot, genVars, crashed, nreq, locks, assigned>>

(***************************************************************************)
(* GTM_RollbackTransactionMulti.                                           *)
(***************************************************************************)
RollbackNext(t, r) ==
    /\ req' = [req EXCEPT ![t] = [r EXCEPT !.ii = @ + 1]]
    /\ pc' = [pc EXCEPT ![t] = IF r.ii < Len(r.txn) THEN "rollback_resolve"
                               ELSE "rollback_remove"]

RollbackResolve(t) ==
    LET r == req[t]
        info == GTM_HandleToTransactionInfo(r.txn[r.ii])
    IN  /\ At(t, "rollback_resolve")
        /\ IF info = NULL
           THEN RollbackNext(t, [r EXCEPT !.info = Append(@, NULL),
                                          !.status = Append(@, "STATUS_ERROR")])
           ELSE /\ req' = [req EXCEPT ![t].info = Append(@, info)]
                /\ pc' = [pc EXCEPT ![t] = "rollback_mark"]
        /\ UNCHANGED <<tableVars, genVars, crashed, nreq, locks, histVars>>

\* gti_state = GTM_TXN_ABORT_IN_PROGRESS under gti_lock, STATUS_OK
RollbackMark(t) ==
    LET r == req[t]
    IN  /\ At(t, "rollback_mark")
        /\ slots' = [slots EXCEPT ![r.info[r.ii]].state = "GTM_TXN_ABORT_IN_PROGRESS"]
        /\ RollbackNext(t, [r EXCEPT !.status = Append(@, "STATUS_OK")])
        /\ UNCHANGED <<open_list, gt_lastslot, gt_latestCompletedXid, genVars,
                       crashed, nreq, locks, histVars>>

\* GTM_RemoveTransInfoMulti(gtm_txninfo, txn_count), then the reply
RollbackRemove(t) ==
    LET r == req[t]
        tb == GTM_RemoveTransInfoMulti(r.info)
    IN  /\ At(t, "rollback_remove")
        /\ slots' = tb.slots
        /\ open_list' = tb.open
        /\ gt_latestCompletedXid' = tb.latest
        /\ removed' = tb.removed
        /\ seq_calls' = tb.seq_calls
        /\ HandlerEnds(t, Replied(r, "ok"))
        /\ UNCHANGED <<gt_lastslot, genVars, crashed, nreq, locks, assigned>>

(***************************************************************************)
(* GTM_StartPreparedTransaction and GTM_PrepareTransaction.                *)
(***************************************************************************)
StartPreparedResolve(t) ==
    LET r == req[t]
        info == GTM_HandleToTransactionInfo(r.txn[1])
    IN  /\ At(t, "start_prepared_resolve")
        /\ IF info = NULL
           THEN /\ req' = [req EXCEPT ![t] =
                             Replied([r EXCEPT !.status = <<"STATUS_ERROR">>], "error")]
                /\ pc' = [pc EXCEPT ![t] = "idle"]
           ELSE /\ req' = [req EXCEPT ![t].info = <<info>>]
                /\ pc' = [pc EXCEPT ![t] = "start_prepared_check"]
        /\ UNCHANGED <<tableVars, genVars, crashed, nreq, locks, histVars>>

\* a check that finds no GID taken
GidInUse_Never(gid) == FALSE

\* whether the GID is taken: GTM_GIDToHandle(gid) != InvalidTransactionHandle
GidInUse(gid) == GTM_GIDToHandle(gid) # InvalidTransactionHandle

\* the duplicate check, one read-locked scan of the open list
StartPreparedCheck(t) ==
    LET r == req[t]
    IN  /\ At(t, "start_prepared_check")
        /\ IF GidInUse(r.gid)
           THEN /\ req' = [req EXCEPT ![t] =
                             Replied([r EXCEPT !.status = <<"STATUS_ERROR">>], "error")]
                /\ pc' = [pc EXCEPT ![t] = "idle"]
           ELSE /\ req' = req
                /\ pc' = [pc EXCEPT ![t] = "start_prepared_store"]
        /\ UNCHANGED <<tableVars, genVars, crashed, nreq, locks, histVars>>

\* the state, the node string and the GID are stored under gti_lock
StartPreparedStore(t) ==
    LET r == req[t]
    IN  /\ At(t, "start_prepared_store")
        /\ slots' = [slots EXCEPT ![r.info[1]] =
                       [@ EXCEPT !.state = "GTM_TXN_PREPARE_IN_PROGRESS",
                                 !.nodestring = r.nodestring,
                                 !.gid = r.gid]]
        /\ HandlerEnds(t, Replied([r EXCEPT !.status = <<"STATUS_OK">>], "ok"))
        /\ UNCHANGED <<open_list, gt_lastslot, gt_latestCompletedXid, genVars,
                       crashed, nreq, locks, histVars>>

PrepareResolve(t) ==
    LET r == req[t]
        info == GTM_HandleToTransactionInfo(r.txn[1])
    IN  /\ At(t, "prepare_resolve")
        /\ IF info = NULL
           THEN HandlerEnds(t, Replied([r EXCEPT !.status = <<"STATUS_ERROR">>], "ok"))
           ELSE /\ req' = [req EXCEPT ![t].info = <<info>>]
                /\ pc' = [pc EXCEPT ![t] = "prepare_mark"]
        /\ UNCHANGED <<tableVars, genVars, crashed, nreq, locks, histVars>>

\* gti_state = GTM_TXN_PREPARED under gti_lock, whatever the state was; then
\* Assert(state == GTM_TXN_PREPARE_IN_PROGRESS), which stops a build with
\* assertions and is nothing in a build without
PrepareMark(t) ==
    LET r == req[t]
        state == slots[r.info[1]].state
    IN  /\ At(t, "prepare_mark")
        /\ slots' = [slots EXCEPT ![r.info[1]].state = "GTM_TXN_PREPARED"]
        /\ crashed' \in {FALSE, state # "GTM_TXN_PREPARE_IN_PROGRESS"}
        /\ HandlerEnds(t, Replied([r EXCEPT !.status = <<"STATUS_OK">>],
                                  IF crashed' THEN "crash" ELSE "ok"))
        /\ UNCHANGED <<open_list, gt_lastslot, gt_latestCompletedXid, genVars,
                       nreq, locks, histVars>>

(***************************************************************************)
(* The session reaper: the client of thread t, or one backend behind it,   *)
(* went away.                                                              *)
(***************************************************************************)
Reap(t, budget, backend_id) ==
    LET tb == GTM_RemoveAllTransInfos(t, backend_id)
    IN  /\ Receives(t, budget)
        /\ slots' = tb.slots
        /\ open_list' = tb.open
        /\ gt_latestCompletedXid' = tb.latest
        /\ removed' = tb.removed
        /\ seq_calls' = tb.seq_calls
        /\ req' = [req EXCEPT ![t] =
                     [NoReq EXCEPT !.op = "MSG_BACKEND_DISCONNECT",
                                   !.backend = backend_id, !.result = "ok"]]
        /\ UNCHANGED <<gt_lastslot, genVars, crashed, pc, assigned>>


(***************************************************************************)
(* The inputs of the requests.                                             *)
(***************************************************************************)
\* the GXIDs a client may name: those handed out so far, and the invalid one
KnownGxids == Range(assigned) \cup {InvalidGlobalTransactionId}

\* sequences over S of length lo .. hi
SeqsOf(S, lo, hi) == UNION {[1 .. n -> S] : n \in lo .. hi}

\* values of the control file at startup: reserved ones, the first normal one,
\* one more than half the GXID space away from it, and the last one
StartGxids ==
    {InvalidGlobalTransactionId, FirstNormalGlobalTransactionId,
     FirstNormalGlobalTransactionId + (GxidModulus \div 2) + 1,
     MaxGlobalTransactionId}

Startup(S) == \E gxid \in S : GTM_SetNextGlobalTransactionId(gxid)

(***************************************************************************)
(* Spec: two clients begin, commit, roll back and disconnect concurrently. *)
(***************************************************************************)
NextTable ==
    \/ Startup({FirstNormalGlobalTransactionId})
    \/ \E t \in Threads, sid \in {"", "S1"} :
           ProcessBeginTransactionCommand(t, MaxRequestsConc, sid)
    \/ \E t \in Threads, sids \in SeqsOf({"", "S1"}, 1, 2) :
           ProcessBeginTransactionGetGXIDCommand(
               t, MaxRequestsConc,
               IF Len(sids) = 1 THEN "MSG_TXN_BEGIN_GETGXID"
               ELSE "MSG_TXN_BEGIN_GETGXID_MULTI",
               sids, [i \in 1 .. Len(sids) |-> -1])
    \/ \E t \in Threads, g \in KnownGxids :
           ReceiveByGXID(t, MaxRequestsConc, "MSG_TXN_COMMIT", <<g>>, <<>>,
                         NULLSTR, NULLSTR)
    \/ \E t \in Threads, gs \in SeqsOf(KnownGxids, 2, 2) :
           ReceiveByGXID(t, MaxRequestsConc, "MSG_TXN_COMMIT_PREPARED", gs, <<>>,
                         NULLSTR, NULLSTR)
    \/ \E t \in Threads, g \in KnownGxids :
           ReceiveByGXID(t, MaxRequestsConc, "MSG_TXN_ROLLBACK", <<g>>, <<>>,
                         NULLSTR, NULLSTR)
    \/ \E t \in Threads : Reap(t, MaxRequestsConc, -1)
    \/ \E t \in Threads :
           \/ GetGXID(t)
           \/ LookupNext(t)
           \/ CommitResolve(t)
           \/ CommitMark(t)
           \/ CommitRemove(t)
           \/ RollbackResolve(t)
           \/ RollbackMark(t)
           \/ RollbackRemove(t)

Spec == Init /\ [][NextTable]_vars


\* C1: at every moment, under any interleaving of begin, begin-with-GXID,
\* commit, rollback, commit-prepared and reap, a slot is in use exactly when it
\* is on the list of open transactions, and it is there exactly once.
C1_InUseIffOpenOnce ==
    \A h \in Handles : Count(open_list, h) = IF slots[h].in_use THEN 1 ELSE 0

\* a slot was removed a second time by a racing request while another
\* transaction is open
C1_Witness ==
    /\ \E g \in Gxids : removed[g] >= 2
    /\ \E h \in Handles : slots[h].in_use
    /\ \A t \in Threads : req[t].op # "none"


(***************************************************************************)
(* SpecGen: two clients begin transactions with a GXID, one at a time or   *)
(* in a batch, and commit or roll them back, from every startup value.     *)
(***************************************************************************)
\* the GXIDs of the open transactions that a lookup can find
OpenGxids ==
    {slots[open_list[i]].gxid : i \in 1 .. Len(open_list)}
        \ {InvalidGlobalTransactionId}

NextGen ==
    \/ Startup(StartGxids)
    \/ \E t \in Threads, sids \in {<<"">>, <<"", "">>} :
           ProcessBeginTransactionGetGXIDCommand(
               t, MaxRequestsConc,
               IF Len(sids) = 1 THEN "MSG_TXN_BEGIN_GETGXID"
               ELSE "MSG_TXN_BEGIN_GETGXID_MULTI",
               sids, [i \in 1 .. Len(sids) |-> -1])
    \/ \E t \in Threads : GetGXID(t)
    \/ \E t \in Threads, g \in OpenGxids :
           ReceiveByGXID(t, MaxRequestsConc, "MSG_TXN_COMMIT", <<g>>, <<>>,
                         NULLSTR, NULLSTR)
    \/ \E t \in Threads, g \in OpenGxids :
           ReceiveByGXID(t, MaxRequestsConc, "MSG_TXN_ROLLBACK", <<g>>, <<>>,
                         NULLSTR, NULLSTR)
    \/ \E t \in Threads :
           \/ CommitResolve(t)
           \/ CommitMark(t)
           \/ CommitRemove(t)
           \/ RollbackResolve(t)
           \/ RollbackMark(t)
           \/ RollbackRemove(t)

SpecGen == Init /\ [][NextGen]_vars

\* the assignments across which the signed difference of two GXIDs keeps its
\* sign: half the GXID space, less the reserved values skipped at the wrap
OrderedWindow == (GxidModulus \div 2) - FirstNormalGlobalTransactionId

\* C3: under modular (signed-difference) comparison every GXID assigned by the
\* generator strictly follows every GXID it assigned earlier, for single and
\* batched assignments; the exception is the wrap of the comparison itself,
\* two assignments half the GXID space or more apart.
C3_AssignedFollowsEarlier ==
    \A i, j \in 1 .. Len(assigned) :
        (i < j /\ j - i < OrderedWindow)
            => GlobalTransactionIdFollows(assigned[j], assigned[i])

\* one batch was given the last GXID and then, past the wrap, the first normal
\* one, and a later assignment followed
C3_Witness ==
    /\ \E t \in Threads :
           /\ req[t].op = "MSG_TXN_BEGIN_GETGXID_MULTI"
           /\ req[t].out = <<MaxGlobalTransactionId, FirstNormalGlobalTransactionId>>
    /\ Len(assigned) >= 3
    /\ assigned[Len(assigned)] = FirstNormalGlobalTransactionId + 1

\* C4: the generator never returns a GXID below FirstNormalGlobalTransactionId,
\* whatever value GTM_SetNextGlobalTransactionId installed in gt_nextXid.
C4_NeverBelowFirstNormal ==
    \A i \in 1 .. Len(assigned) : assigned[i] >= FirstNormalGlobalTransactionId

(***************************************************************************)
(* SpecCycle: client 1 begins and commits transactions until gt_nextXid    *)
(* has gone once around the GXID space, while client 2 begins and rolls    *)
(* back transactions at any moment of the run.                             *)
(***************************************************************************)
\* the normal GXIDs, the length of one cycle of the generator
NormalGxids == GxidModulus - FirstNormalGlobalTransactionId

\* assignments after which no new transaction is begun: one cycle and one
MaxAssigned == NormalGxids + 1

\* client 1 sends any number of requests, client 2 a few
CycleBudget(t) == IF t = 1 THEN 0 ELSE MaxRequestsConc - 1

NextCycle ==
    \/ Startup({FirstNormalGlobalTransactionId})
    \/ \E t \in Threads :
           /\ Len(assigned) < MaxAssigned
           /\ ProcessBeginTransactionGetGXIDCommand(
                  t, CycleBudget(t), "MSG_TXN_BEGIN_GETGXID",
                  <<IF t = 1 THEN "S1" ELSE "S2">>, <<-1>>)
    \/ \E t \in Threads : GetGXID(t)
    \/ \E g \in OpenGxids :
           ReceiveByGXID(1, CycleBudget(1), "MSG_TXN_COMMIT", <<g>>, <<>>,
                         NULLSTR, NULLSTR)
    \/ \E g \in OpenGxids :
           ReceiveByGXID(2, CycleBudget(2), "MSG_TXN_ROLLBACK", <<g>>, <<>>,
                         NULLSTR, NULLSTR)
    \/ CommitResolve(1)
    \/ CommitMark(1)
    \/ CommitRemove(1)
    \/ RollbackResolve(2)
    \/ RollbackMark(2)
    \/ RollbackRemove(2)

SpecCycle == Init /\ [][NextCycle]_vars

\* C2: under any interleaving of concurrent begin-with-GXID, commit and
\* rollback requests, GTM_GetGlobalTransactionIdMulti never gives the same GXID
\* to two transactions. As stated, without a limit on the number of
\* assignments:
C2_NeverAssignedTwice ==
    \A i, j \in 1 .. Len(assigned) : i < j => assigned[i] # assigned[j]

\* C2, amended: two assignments return the same GXID only when a whole cycle of
\* the normal GXIDs (2^32 - 3 assignments) lies between them
C2_AssignedTwiceOnlyAfterCycle ==
    \A i, j \in 1 .. Len(assigned) :
        (i < j /\ assigned[i] = assigned[j]) => j - i >= NormalGxids

\* both clients were served, the second between two assignments of the first,
\* and the generator has come back to the GXID it started from
C2_Witness ==
    /\ Len(assigned) > NormalGxids
    /\ assigned[Len(assigned)] = assigned[Len(assigned) - NormalGxids]
    /\ \E i \in 2 .. (Len(assigned) - 1) :
           \E h \in Handles : slots[h].client_id = 2 /\ slots[h].gxid = assigned[i]


(***************************************************************************)
(* SpecPrepare: two clients begin transactions, directly or behind a       *)
(* proxy, start preparing and prepare them under a GID, and disconnect.    *)
(***************************************************************************)
NextPrepare ==
    \/ Startup({FirstNormalGlobalTransactionId})
    \/ \E t \in Threads, sids \in {<<"">>, <<"", "">>}, proxy \in {-1, 1} :
           ProcessBeginTransactionGetGXIDCommand(
               t, MaxRequestsConc,
               IF Len(sids) = 1 THEN "MSG_TXN_BEGIN_GETGXID"
               ELSE "MSG_TXN_BEGIN_GETGXID_MULTI",
               sids, [i \in 1 .. Len(sids) |-> proxy])
    \/ \E t \in Threads : GetGXID(t)
    \/ \E t \in Threads, g \in OpenGxids, gid \in {"G1", "G2"} :
           ReceiveByGXID(t, MaxRequestsConc, "MSG_TXN_START_PREPARED", <<g>>, <<>>,
                         gid, "n1")
    \/ \E t \in Threads, g \in OpenGxids :
           ReceiveByGXID(t, MaxRequestsConc, "MSG_TXN_PREPARE", <<g>>, <<>>,
                         NULLSTR, NULLSTR)
    \/ \E t \in Threads, backend_id \in {-1, 1} :
           Reap(t, MaxRequestsConc, backend_id)
    \/ \E t \in Threads :
           \/ StartPreparedResolve(t)
           \/ StartPreparedCheck(t)
           \/ StartPreparedStore(t)
           \/ PrepareResolve(t)
           \/ PrepareMark(t)

SpecPrepare == Init /\ [][NextPrepare]_vars

\* the step is the reaping of the transactions of a disconnected client
IsReapStep ==
    \E t \in Threads :
        /\ nreq'[t] = nreq[t] + 1
        /\ req'[t].op = "MSG_BACKEND_DISCONNECT"

\* the slots the reaper must keep
PreparedSlots ==
    {h \in Handles :
        /\ slots[h].in_use
        /\ slots[h].state \in {"GTM_TXN_PREPARED", "GTM_TXN_PREPARE_IN_PROGRESS"}}

\* C5: for every sequence of begin, StartPrepared, Prepare and reap, the reaping
\* never removes a slot whose state is Prepared or PrepareInProgress: the slot
\* stays on the open list, in use and unchanged, and its GID still resolves to
\* an open transaction carrying it.
C5_ReapKeepsPrepared ==
    [][IsReapStep =>
          \A h \in PreparedSlots :
              /\ slots'[h] = slots[h]
              /\ Count(open_list', h) = 1
              /\ slots[h].gid # NULLSTR =>
                     /\ GTM_GIDToHandle_In(slots', open_list', slots[h].gid)
                            # InvalidTransactionHandle
                     /\ GTM_GIDToHandle_In(slots', open_list', slots[h].gid)
                            = GTM_GIDToHandle(slots[h].gid)]_vars

\* a disconnect has just removed one transaction of the client and kept another
\* one, begun behind the same proxy, that is being prepared under a GID
C5_Witness ==
    \E t \in Threads, h \in PreparedSlots :
        /\ pc[t] = "idle"
        /\ req[t].op = "MSG_BACKEND_DISCONNECT"
        /\ slots[h].client_id = t
        /\ slots[h].gid # NULLSTR
        /\ req[t].backend \in {-1, slots[h].proxy_client_id}
        /\ GTM_GIDToHandle(slots[h].gid) = h
        /\ \E g \in Gxids : g # InvalidGlobalTransactionId /\ removed[g] >= 1

\* C6: at every moment, under any interleaving of concurrent StartPrepared
\* requests, no two slots on the open list carry the same GID.
C6_GidUnique ==
    \A i, j \in 1 .. Len(open_list) :
        (i # j /\ slots[open_list[i]].gid # NULLSTR)
            => slots[open_list[i]].gid # slots[open_list[j]].gid


(***************************************************************************)
(* SpecSeq: one client at a time; transactions are begun, given GXIDs from *)
(* every startup value, committed, rolled back, and reaped on disconnect.  *)
(***************************************************************************)
NextSeq ==
    \/ Startup(StartGxids)
    \/ ProcessBeginTransactionCommand(1, MaxRequestsSeq, "")
    \/ \E sids \in {<<"">>, <<"", "">>} :
           ProcessBeginTransactionGetGXIDCommand(
               1, MaxRequestsSeq,
               IF Len(sids) = 1 THEN "MSG_TXN_BEGIN_GETGXID"
               ELSE "MSG_TXN_BEGIN_GETGXID_MULTI",
               sids, [i \in 1 .. Len(sids) |-> -1])
    \/ GetGXID(1)
    \/ \E g \in KnownGxids :
           ReceiveByGXID(1, MaxRequestsSeq, "MSG_TXN_COMMIT", <<g>>, <<>>,
                         NULLSTR, NULLSTR)
    \/ \E g \in KnownGxids :
           ReceiveByGXID(1, MaxRequestsSeq, "MSG_TXN_ROLLBACK", <<g>>, <<>>,
                         NULLSTR, NULLSTR)
    \/ Reap(1, MaxRequestsSeq, -1)
    \/ CommitResolve(1)
    \/ CommitMark(1)
    \/ CommitRemove(1)
    \/ RollbackResolve(1)
    \/ RollbackMark(1)
    \/ RollbackRemove(1)

SpecSeq == Init /\ [][NextSeq]_vars

\* the GXIDs of the slots removed so far
RemovedGxids == {g \in Gxids : g # InvalidGlobalTransactionId /\ removed[g] > 0}

\* C7: after any sequence of commit, rollback and reap operations,
\* gt_latestCompletedXid is the modular maximum of the GXIDs of all slots removed
\* so far: it is one of them and follows or equals each of them.
C7_LatestCompletedIsMaxRemoved ==
    RemovedGxids # {} =>
        /\ gt_latestCompletedXid \in RemovedGxids
        /\ \A g \in RemovedGxids :
               GlobalTransactionIdFollowsOrEquals(gt_latestCompletedXid, g)


(***************************************************************************)
(* SpecCommit: two clients begin transactions with a GXID and commit them, *)
(* one at a time with a list of GXIDs to wait for, or two in one batch.    *)
(***************************************************************************)
NextCommit ==
    \/ Startup({FirstNormalGlobalTransactionId})
    \/ \E t \in Threads, sids \in {<<"">>, <<"", "">>} :
           ProcessBeginTransactionGetGXIDCommand(
               t, MaxRequestsConc,
               IF Len(sids) = 1 THEN "MSG_TXN_BEGIN_GETGXID"
               ELSE "MSG_TXN_BEGIN_GETGXID_MULTI",
               sids, [i \in 1 .. Len(sids) |-> -1])
    \/ \E t \in Threads : GetGXID(t)
    \/ \E t \in Threads, g \in KnownGxids, waited_xids \in SeqsOf(KnownGxids, 0, 2) :
           ReceiveByGXID(t, MaxRequestsConc, "MSG_TXN_COMMIT", <<g>>, waited_xids,
                         NULLSTR, NULLSTR)
    \/ \E t \in Threads, gs \in SeqsOf(KnownGxids, 2, 2) :
           ReceiveByGXID(t, MaxRequestsConc, "MSG_TXN_COMMIT_MULTI", gs, <<>>,
                         NULLSTR, NULLSTR)
    \/ \E t \in Threads :
           \/ LookupNext(t)
           \/ CommitResolve(t)
           \/ CommitWait(t)
           \/ CommitMark(t)
           \/ CommitRemove(t)

SpecCommit == Init /\ [][NextCommit]_vars

CommitOps == {"MSG_TXN_COMMIT", "MSG_TXN_COMMIT_MULTI", "MSG_TXN_COMMIT_PREPARED"}

\* the STATUS_OK answers that the commit request of thread t holds for gxid
OkAnswers(t, gxid) ==
    IF req[t].op \in CommitOps
    THEN Cardinality({i \in 1 .. Len(req[t].status) :
                         req[t].status[i] = "STATUS_OK" /\ req[t].gxid[i] = gxid})
    ELSE 0

\* C8: two commits of the same GXID are impossible: of two commit requests
\* naming one GXID, from two threads or twice in one batch, at most one gets
\* STATUS_OK, and the removal and cleanup run at most once for the transaction.
C8_CommittedAtMostOnce ==
    \A g \in Gxids \ {InvalidGlobalTransactionId} :
        /\ OkAnswers(1, g) + OkAnswers(2, g) =< 1
        /\ removed[g] =< 1

\* thread t takes the step
StepOf(t) == req'[t] # req[t] \/ pc'[t] # pc[t]

\* thread t is inside GTM_CommitTransactionMulti
InCommit(t) ==
    /\ req[t].op \in CommitOps
    /\ pc[t] \in {"commit_resolve", "commit_wait", "commit_mark", "commit_remove"}

\* some GXID of the request's waited_xids is still on the open list
WaitedOpen(r) == \E j \in 1 .. Len(r.waited) : r.waited[j] \in OpenGxids

\* C9: a commit of a handle whose waited_xids holds a GXID still on the open
\* list returns STATUS_DELAYED for the handle and leaves the slot on the open
\* list with its state, gxid and gid unchanged, and gt_latestCompletedXid
\* unchanged.
C9_DelayedLeavesAllUnchanged ==
    [][\A t \in Threads :
          (StepOf(t) /\ InCommit(t) /\ WaitedOpen(req[t])) =>
              /\ slots' = slots
              /\ open_list' = open_list
              /\ gt_latestCompletedXid' = gt_latestCompletedXid
              /\ pc'[t] = "idle" =>
                     \A i \in 1 .. Len(req[t].info) :
                         req[t].info[i] # NULL
                             => req'[t].status[i] = "STATUS_DELAYED"]_vars

\* a commit that waits for an open transaction has been answered STATUS_DELAYED
\* and its own transaction is still open
C9_Witness ==
    \E t \in Threads :
        /\ pc[t] = "idle"
        /\ req[t].op = "MSG_TXN_COMMIT"
        /\ req[t].status = <<"STATUS_DELAYED">>
        /\ WaitedOpen(req[t])
        /\ req[t].gxid[1] \in OpenGxids
        /\ req[t].waited[1] # req[t].gxid[1]


(***************************************************************************)
(* SpecRetry: client 1 begins transactions and commits one of them with a  *)
(* list of GXIDs to wait for; answered STATUS_DELAYED, it sends the same   *)
(* request again and again. Client 2 commits or rolls back the             *)
(* transactions that are waited for.                                       *)
(***************************************************************************)
\* the open GXIDs that a delayed commit, or its retry, waits for
WaitedFor ==
    {g \in OpenGxids :
        \E t \in Threads :
            (DelayedReply(t) \/ req[t].retry) /\ g \in Range(req[t].waited)}

\* client 1 sends a new request
Request(t) ==
    /\ ~DelayedReply(t)
    /\ \/ \E sids \in {<<"">>, <<"", "">>} :
              /\ Len(assigned) < GTM_MAX_GLOBAL_TRANSACTIONS - 1
              /\ ProcessBeginTransactionGetGXIDCommand(
                     t, 0,
                     IF Len(sids) = 1 THEN "MSG_TXN_BEGIN_GETGXID"
                     ELSE "MSG_TXN_BEGIN_GETGXID_MULTI",
                     sids, [i \in 1 .. Len(sids) |-> -1])
       \/ \E g \in OpenGxids, waited_xids \in SeqsOf(OpenGxids, 1, 2) :
              ReceiveByGXID(t, 0, "MSG_TXN_COMMIT", <<g>>, waited_xids,
                            NULLSTR, NULLSTR)

\* client 1 sends the delayed commit again
Retry(t) ==
    /\ DelayedReply(t)
    /\ ReceiveByGXID(t, 0, req[t].op, req[t].gxid, req[t].waited, NULLSTR, NULLSTR)

\* client 2 commits or rolls back a transaction that is waited for
Complete(t) ==
    \E g \in WaitedFor, op \in {"MSG_TXN_COMMIT", "MSG_TXN_ROLLBACK"} :
        ReceiveByGXID(t, 0, op, <<g>>, <<>>, NULLSTR, NULLSTR)

\* the threads run their handlers
Handle(t) ==
    \/ GetGXID(t)
    \/ CommitResolve(t)
    \/ CommitWait(t)
    \/ CommitMark(t)
    \/ CommitRemove(t)
    \/ RollbackResolve(t)
    \/ RollbackMark(t)
    \/ RollbackRemove(t)

NextRetry ==
    \/ Startup({FirstNormalGlobalTransactionId})
    \/ Request(1)
    \/ Retry(1)
    \/ Complete(2)
    \/ \E t \in Threads : Handle(t)

\* every thread that can run does; the client keeps retrying; the transactions
\* waited for are completed
SpecRetry ==
    /\ Init
    /\ [][NextRetry]_vars
    /\ \A t \in Threads : WF_vars(Handle(t))
    /\ WF_vars(Retry(1))
    /\ WF_vars(Complete(2))

\* the GXIDs that the run can assign
RetryGxids ==
    FirstNormalGlobalTransactionId ..
        (FirstNormalGlobalTransactionId + GTM_MAX_GLOBAL_TRANSACTIONS - 1)

\* GXID g is that of a commit answered STATUS_DELAYED
Delayed(g) ==
    \E t \in Threads :
        /\ DelayedReply(t)
        /\ \E i \in 1 .. Len(req[t].status) :
               req[t].status[i] = "STATUS_DELAYED" /\ req[t].gxid[i] = g

\* a step of GTM_CommitTransactionMulti taken when no GXID of waited_xids is
\* open delays nothing, and answers STATUS_OK for a transaction it found open
NotDelayedWithoutWaited ==
    \A t \in Threads :
        (StepOf(t) /\ InCommit(t) /\ ~WaitedOpen(req[t])
                /\ Len(req'[t].status) > Len(req[t].status))
            => LET status == req'[t].status[Len(req'[t].status)]
               IN  IF pc[t] = "commit_resolve" THEN status = "STATUS_ERROR"
                   ELSE status = "STATUS_OK"

\* C10: a commit answered STATUS_DELAYED is answered STATUS_OK when it is sent
\* again after every GXID of its waited_xids has been committed or rolled back;
\* and if those transactions complete and the client keeps retrying, the delayed
\* transaction eventually leaves the open list.
C10_DelayedCommitsOnRetry ==
    /\ [][NotDelayedWithoutWaited]_vars
    /\ \A g \in RetryGxids : Delayed(g) ~> (g \notin OpenGxids)

\* the retry of a delayed commit, sent after the transaction it waited for was
\* completed by the other client, has been answered STATUS_OK and the
\* transaction has left the open list
C10_Witness ==
    /\ pc[1] = "idle"
    /\ req[1].retry
    /\ req[1].status = <<"STATUS_OK">>
    /\ req[1].gxid[1] \notin OpenGxids
    /\ req[1].waited[1] # req[1].gxid[1]
    /\ removed[req[1].waited[1]] = 1
    /\ removed[req[1].gxid[1]] = 1
    /\ req[2].gxid = <<req[1].waited[1]>>


(***************************************************************************)
(* SpecCommitPrepared: two clients begin transactions with a GXID;         *)
(* prepared transactions are committed by MSG_TXN_COMMIT_PREPARED, which   *)
(* names the prepare-time and the commit-time GXID and a list of GXIDs to  *)
(* wait for, while the other client commits or rolls back.                 *)
(***************************************************************************)
NextCommitPrepared ==
    \/ Startup({FirstNormalGlobalTransactionId})
    \/ \E t \in Threads, sids \in {<<"", "">>, <<"", "", "">>} :
           ProcessBeginTransactionGetGXIDCommand(
               t, MaxRequestsConc, "MSG_TXN_BEGIN_GETGXID_MULTI",
               sids, [i \in 1 .. Len(sids) |-> -1])
    \/ \E t \in Threads : GetGXID(t)
    \/ \E t \in Threads, gs \in SeqsOf(OpenGxids, 2, 2),
          waited_xids \in SeqsOf(OpenGxids, 0, 1) :
           /\ gs[1] # gs[2]
           /\ ReceiveByGXID(t, MaxRequestsConc, "MSG_TXN_COMMIT_PREPARED", gs,
                            waited_xids, NULLSTR, NULLSTR)
    \/ \E t \in Threads, g \in OpenGxids :
           ReceiveByGXID(t, MaxRequestsConc, "MSG_TXN_COMMIT", <<g>>, <<>>,
                         NULLSTR, NULLSTR)
    \/ \E t \in Threads, g \in OpenGxids :
           ReceiveByGXID(t, MaxRequestsConc, "MSG_TXN_ROLLBACK", <<g>>, <<>>,
                         NULLSTR, NULLSTR)
    \/ \E t \in Threads :
           \/ LookupNext(t)
           \/ CommitResolve(t)
           \/ CommitWait(t)
           \/ CommitMark(t)
           \/ CommitRemove(t)
           \/ RollbackResolve(t)
           \/ RollbackMark(t)
           \/ RollbackRemove(t)

SpecCommitPrepared == Init /\ [][NextCommitPrepared]_vars

\* C11: in a MSG_TXN_COMMIT_PREPARED whose two GXIDs were both found open, the
\* prepare-time and the commit-time GXID get the same outcome under any
\* interleaving with other commits and rollbacks: both STATUS_OK (and both
\* removed) or both STATUS_DELAYED (and both left open), never one of each.
C11_BothOrNeither ==
    \A t \in Threads :
        (/\ pc[t] = "idle"
         /\ req[t].op = "MSG_TXN_COMMIT_PREPARED"
         /\ Len(req[t].status) = 2
         /\ \A i \in 1 .. 2 : req[t].txn[i] # InvalidTransactionHandle)
            => \/ req[t].status = <<"STATUS_OK", "STATUS_OK">>
               \/ req[t].status = <<"STATUS_DELAYED", "STATUS_DELAYED">>


(***************************************************************************)
(* SpecSession: two clients begin transactions on named global sessions,   *)
(* with or without a GXID, one at a time or in a batch, and commit or roll *)
(* them back.                                                              *)
(***************************************************************************)
NextSession ==
    \/ Startup({FirstNormalGlobalTransactionId})
    \/ \E t \in Threads, sid \in {"S1", "S2"} :
           ProcessBeginTransactionCommand(t, MaxRequestsConc, sid)
    \/ \E t \in Threads, sids \in SeqsOf({"S1", "S2"}, 1, 2) :
           ProcessBeginTransactionGetGXIDCommand(
               t, MaxRequestsConc,
               IF Len(sids) = 1 THEN "MSG_TXN_BEGIN_GETGXID"
               ELSE "MSG_TXN_BEGIN_GETGXID_MULTI",
               sids, [i \in 1 .. Len(sids) |-> -1])
    \/ \E t \in Threads : GetGXID(t)
    \/ \E t \in Threads, g \in OpenGxids :
           ReceiveByGXID(t, MaxRequestsConc, "MSG_TXN_COMMIT", <<g>>, <<>>,
                         NULLSTR, NULLSTR)
    \/ \E t \in Threads :
           \/ CommitResolve(t)
           \/ CommitMark(t)
           \/ CommitRemove(t)

SpecSession == Init /\ [][NextSession]_vars

BeginOps == {"MSG_TXN_BEGIN", "MSG_TXN_BEGIN_GETGXID", "MSG_TXN_BEGIN_GETGXID_MULTI"}

\* the open slots that belong to the global session sid
SessionOwners(sid) ==
    {h \in Range(open_list) : sid # "" /\ slots[h].session_id = sid}

\* thread t receives a begin request and runs GTM_BeginTransactionMulti
IsBeginStep(t) == nreq'[t] = nreq[t] + 1 /\ req'[t].op \in BeginOps

\* thread t runs GTM_GetGlobalTransactionIdMulti for the handles of its request
IsGetGXIDStep(t) == pc[t] = "getgxid" /\ pc'[t] = "idle"

\* the slot of handle h is in use and has a GXID
HasGxid(h) == slots[h].in_use /\ GlobalTransactionIdIsValid(slots[h].gxid)

\* C12: a begin, with or without GXID, on a non-empty session that owns an open
\* slot returns the handle of that slot and leaves the slot as it is; when every
\* session of the request owns a slot, no slot is allocated and gt_lastslot and
\* the open list are unchanged. The GXID assignment that follows returns the
\* GXID a slot already has (when the call completes), and when every slot has
\* one gt_nextXid is not advanced.
C12_BeginOnOpenSessionChangesNothing ==
    [][\A t \in Threads :
          /\ IsBeginStep(t) =>
                /\ \A kk \in 1 .. Len(req'[t].sess) :
                       SessionOwners(req'[t].sess[kk]) # {} =>
                           /\ req'[t].txn[kk] \in SessionOwners(req'[t].sess[kk])
                           /\ slots'[req'[t].txn[kk]] = slots[req'[t].txn[kk]]
                /\ (\A kk \in 1 .. Len(req'[t].sess) :
                        SessionOwners(req'[t].sess[kk]) # {}) =>
                       /\ slots' = slots
                       /\ open_list' = open_list
                       /\ gt_lastslot' = gt_lastslot
                       /\ gt_nextXid' = gt_nextXid
          /\ IsGetGXIDStep(t) =>
                /\ \A ii \in 1 .. Len(req[t].txn) :
                       (HasGxid(req[t].txn[ii]) /\ req'[t].result = "ok") =>
                           /\ Len(req'[t].out) >= ii
                           /\ req'[t].out[ii] = slots[req[t].txn[ii]].gxid
                /\ (\A ii \in 1 .. Len(req[t].txn) : HasGxid(req[t].txn[ii])) =>
                       /\ gt_nextXid' = gt_nextXid
                       /\ assigned' = assigned
                       /\ slots' = slots
                       /\ open_list' = open_list
                       /\ gt_lastslot' = gt_lastslot]_vars

\* both clients began with a GXID on session S1: one slot is open, one GXID was
\* assigned, and both were answered with that slot and that GXID
C12_Witness ==
    /\ \A t \in Threads :
           /\ pc[t] = "idle"
           /\ req[t].op = "MSG_TXN_BEGIN_GETGXID"
           /\ req[t].sess = <<"S1">>
           /\ req[t].out = <<FirstNormalGlobalTransactionId>>
    /\ req[1].txn = req[2].txn
    /\ Len(open_list) = 1
    /\ Len(assigned) = 1
    /\ gt_nextXid = FirstNormalGlobalTransactionId + 1


(***************************************************************************)
(* SpecAlloc: two clients begin transactions, on the session S1 or on no   *)
(* session, with or without a GXID, and commit them, so that the table     *)
(* fills up, slots are freed and gt_lastslot goes around the array.        *)
(***************************************************************************)
NextAlloc ==
    \/ Startup({FirstNormalGlobalTransactionId})
    \/ \E t \in Threads, sid \in {"", "S1"} :
           ProcessBeginTransactionCommand(t, MaxRequestsSeq, sid)
    \/ \E t \in Threads, sids \in {<<"">>, <<"S1">>, <<"", "S1">>} :
           ProcessBeginTransactionGetGXIDCommand(
               t, MaxRequestsSeq,
               IF Len(sids) = 1 THEN "MSG_TXN_BEGIN_GETGXID"
               ELSE "MSG_TXN_BEGIN_GETGXID_MULTI",
               sids, [i \in 1 .. Len(sids) |-> -1])
    \/ \E t \in Threads : GetGXID(t)
    \/ \E t \in Threads, g \in OpenGxids :
           ReceiveByGXID(t, MaxRequestsSeq, "MSG_TXN_COMMIT", <<g>>, <<>>,
                         NULLSTR, NULLSTR)
    \/ \E t \in Threads :
           \/ CommitResolve(t)
           \/ CommitMark(t)
           \/ CommitRemove(t)

SpecAlloc == Init /\ [][NextAlloc]_vars

\* the slots that are not in use
FreeSlots == {h \in Handles : ~slots[h].in_use}

\* the steps from gt_lastslot + 1 to slot h, going around the array
CyclicDistance(h) ==
    (h - gt_lastslot - 1 + 2 * GTM_MAX_GLOBAL_TRANSACTIONS)
        % GTM_MAX_GLOBAL_TRANSACTIONS

\* the first free slot in cyclic order from gt_lastslot + 1
FirstFreeInCyclicOrder ==
    CHOOSE h \in FreeSlots : \A k \in FreeSlots : CyclicDistance(h) =< CyclicDistance(k)

\* thread t receives a begin for one session that owns no open slot
IsBeginOnNewSession(t) ==
    /\ IsBeginStep(t)
    /\ Len(req'[t].sess) = 1
    /\ SessionOwners(req'[t].sess[1]) = {}

\* C13: a begin on a new or empty session returns the first slot not in use in
\* cyclic order from (gt_lastslot + 1) mod GTM_MAX_GLOBAL_TRANSACTIONS, sets
\* gt_lastslot to it and appends it to the open list; it fails with "Max global
\* transactions limit reached" if and only if all slots are in use, and then
\* changes nothing.
C13_BeginTakesFirstFreeSlot ==
    [][\A t \in Threads :
          IsBeginOnNewSession(t) =>
              IF FreeSlots = {}
              THEN /\ req'[t].result = "error"
                   /\ slots' = slots
                   /\ open_list' = open_list
                   /\ gt_lastslot' = gt_lastslot
              ELSE /\ req'[t].result # "error"
                   /\ crashed' = crashed
                   /\ req'[t].txn = <<FirstFreeInCyclicOrder>>
                   /\ gt_lastslot' = FirstFreeInCyclicOrder
                   /\ open_list' = Append(open_list, FirstFreeInCyclicOrder)
                   /\ slots'[FirstFreeInCyclicOrder].in_use
                   /\ \A h \in Handles \ {FirstFreeInCyclicOrder} :
                          slots'[h] = slots[h]]_vars

\* with the table full a begin failed; then a transaction was committed and the
\* next begin took the freed slot, behind gt_lastslot in the array
C13_Witness ==
    /\ req[1].op = "MSG_TXN_BEGIN" /\ req[1].result = "error"
    /\ req[2].op = "MSG_TXN_BEGIN" /\ req[2].result = "ok"
    /\ req[2].txn = <<0>>
    /\ gt_lastslot = 0
    /\ Len(open_list) = GTM_MAX_GLOBAL_TRANSACTIONS
    /\ open_list[Len(open_list)] = 0
    /\ \E g \in Gxids : removed[g] = 1


\* the last request of thread c was the commit of the transaction of session
\* sid in slot h, answered STATUS_OK, and the slot has been free since
JustCommitted(c, h, sid) ==
    /\ pc[c] = "idle"
    /\ req[c].op = "MSG_TXN_COMMIT"
    /\ req[c].status = <<"STATUS_OK">>
    /\ req[c].txn = <<h>>
    /\ ~slots[h].in_use
    /\ sid # ""
    /\ slots[h].session_id = sid

\* thread t begins on the session whose transaction in slot h was just committed
IsBeginAfterCommit(t, h) ==
    /\ IsBeginOnNewSession(t)
    /\ req'[t].result # "error"
    /\ \E c \in Threads : JustCommitted(c, h, req'[t].sess[1])

\* C14: after the transaction of session S is committed, a new begin on S
\* returns a handle different from the one just committed, for every occupancy
\* of the table and every position of gt_lastslot. As stated:
C14_BeginAfterCommitGetsOtherHandle ==
    [][\A t \in Threads, h \in Handles :
          IsBeginAfterCommit(t, h) => req'[t].txn[1] # h]_vars

\* C14, amended: the new begin returns a different handle whenever another slot
\* not in use comes before the committed slot in cyclic order from
\* gt_lastslot + 1; it returns the committed slot again exactly when that slot
\* is the first free one in that order.
C14_OtherHandleUnlessFirstFree ==
    [][\A t \in Threads, h \in Handles :
          IsBeginAfterCommit(t, h) =>
              (req'[t].txn[1] # h
                  <=> \E k \in FreeSlots \ {h} : CyclicDistance(k) < CyclicDistance(h))]_vars

\* the transaction of session S1 was committed by one client, and the begin of
\* the other client on S1 was given another slot while a third transaction is
\* open
C14_Witness ==
    \E c, t \in Threads, h \in Handles :
        /\ c # t
        /\ JustCommitted(c, h, "S1")
        /\ pc[t] = "idle"
        /\ req[t].op \in BeginOps
        /\ req[t].sess = <<"S1">>
        /\ req[t].result = "ok"
        /\ req[t].txn[1] # h
        /\ slots[req[t].txn[1]].in_use
        /\ slots[req[t].txn[1]].session_id = "S1"
        /\ Len(open_list) >= 2


(***************************************************************************)
(* SpecControl: from every startup value two clients begin transactions    *)
(* with a GXID, one at a time or two in a batch, and disconnect; the       *)
(* control file is written by SaveControlInfo after gt_XidGenLock has been *)
(* released.                                                               *)
(***************************************************************************)
NextControl ==
    \/ Startup(StartGxids)
    \/ \E t \in Threads, sids \in {<<"">>, <<"", "">>} :
           ProcessBeginTransactionGetGXIDCommand(
               t, MaxRequestsSeq,
               IF Len(sids) = 1 THEN "MSG_TXN_BEGIN_GETGXID"
               ELSE "MSG_TXN_BEGIN_GETGXID_MULTI",
               sids, [i \in 1 .. Len(sids) |-> -1])
    \/ \E t \in Threads : GetGXIDLocked(t, TRUE)
    \/ \E t \in Threads : SaveControlInfo(t)
    \/ \E t \in Threads : Reap(t, MaxRequestsSeq, -1)

SpecControl == Init /\ [][NextControl]_vars

\* thread t runs GTM_GetGlobalTransactionIdMulti and GXIDs are assigned
IsAssignStep(t) ==
    /\ pc[t] = "getgxid"
    /\ pc'[t] # "getgxid"
    /\ Len(assigned') > Len(assigned)

\* the last GXID assigned by the step
LastAssigned == assigned'[Len(assigned')]

\* C15: whenever a GXID assignment call ends with a last assigned (valid) xid such that
\* xid - ControlXid >= CONTROL_INTERVAL, or xid < ControlXid (wrap), the call
\* sets ControlXid = xid and writes the control file, so that the delta not yet
\* written never reaches CONTROL_INTERVAL.
C15_ControlSavedAtInterval ==
    [][\A t \in Threads :
          (/\ IsAssignStep(t)
           /\ GlobalTransactionIdIsValid(LastAssigned)
           /\ \/ GxidWrap(LastAssigned - ControlXid + GxidModulus) >= CONTROL_INTERVAL
              \/ LastAssigned < ControlXid)
              => /\ ControlXid' = LastAssigned
                 /\ pc'[t] = "save_control"]_vars

\* the position of GXID x in the order of assignment
AssignedAt(x) == CHOOSE i \in 1 .. Len(assigned') : assigned'[i] = x

\* C16: across any sequence and interleaving of GXID assignments by concurrent
\* threads, the GXID written to the control file never decreases, although the
\* write is made after gt_XidGenLock was released: every write replaces the
\* GXID in the file by one assigned later, which follows it under modular
\* comparison (as long as the comparison itself has not wrapped, fewer than half
\* the GXID space of assignments lying between the two).
C16_ControlFileNeverDecreases ==
    [][(GlobalTransactionIdIsValid(ControlFile) /\ ControlFile' # ControlFile)
          => /\ ControlFile' \in Range(assigned')
             /\ AssignedAt(ControlFile') > AssignedAt(ControlFile)
             /\ (AssignedAt(ControlFile') - AssignedAt(ControlFile) < OrderedWindow)
                    => GlobalTransactionIdFollows(ControlFile', ControlFile)]_vars

\* a thread that decided to write the control file has not written yet, and
\* the file already holds the later GXID of the other thread's decision
C16_Witness ==
    \E t \in Threads :
        /\ pc[t] = "save_control"
        /\ GlobalTransactionIdIsValid(ControlFile)
        /\ ControlFile = ControlXid
        /\ GlobalTransactionIdFollows(ControlFile, req[t].out[Len(req[t].out)])
        /\ Len(assigned) >= 3


(***************************************************************************)
(* SpecShutdown: the node starts as master or as standby, a standby is     *)
(* promoted, and the GTM is shut down, while two clients begin             *)
(* transactions with a GXID.                                               *)
(***************************************************************************)
NextShutdown ==
    \/ StartupAsStandby
    \/ Startup({FirstNormalGlobalTransactionId, MaxGlobalTransactionId})
    \/ Promote
    \/ GTM_SetShuttingDown
    \/ \E t \in Threads, sids \in {<<"">>, <<"", "">>} :
           ProcessBeginTransactionGetGXIDCommand(
               t, MaxRequestsConc,
               IF Len(sids) = 1 THEN "MSG_TXN_BEGIN_GETGXID"
               ELSE "MSG_TXN_BEGIN_GETGXID_MULTI",
               sids, [i \in 1 .. Len(sids) |-> -1])
    \/ \E t \in Threads : GetGXIDLocked(t, TRUE)
    \/ \E t \in Threads : SaveControlInfo(t)

SpecShutdown == Init /\ [][NextShutdown]_vars

\* the generator is closed: the GTM is shutting down, or has started and runs
\* as standby
Refusing ==
    \/ gt_gtm_state = "GTM_SHUTTING_DOWN"
    \/ standby /\ gt_gtm_state = "GTM_RUNNING"

\* C17: once the state is GTM_SHUTTING_DOWN (after GTM_SetShuttingDown), or
\* while the node runs as standby, the generator refuses every request: the
\* call fails, no slot is given a GXID, and gt_nextXid and ControlXid do not
\* change.
C17_RefusesWhenShuttingDownOrStandby ==
    [][Refusing =>
          /\ gt_nextXid' = gt_nextXid
          /\ ControlXid' = ControlXid
          /\ assigned' = assigned
          /\ \A h \in Handles : slots'[h].gxid = slots[h].gxid
          /\ \A t \in Threads :
                 (pc[t] = "getgxid" /\ pc'[t] # "getgxid") =>
                     /\ req'[t].result = "error"
                     /\ req'[t].out = <<>>
                     /\ pc'[t] = "idle"]_vars

\* after GXIDs were assigned the GTM was shut down, and the request of a client
\* that had begun its transaction was refused: its slot is open without a GXID
C17_Witness ==
    \E t \in Threads :
        /\ gt_gtm_state = "GTM_SHUTTING_DOWN"
        /\ Len(assigned) >= 1
        /\ pc[t] = "idle"
        /\ req[t].op \in BeginOps
        /\ req[t].result = "error"
        /\ Len(req[t].txn) >= 1
        /\ slots[req[t].txn[1]].in_use
        /\ ~GlobalTransactionIdIsValid(slots[req[t].txn[1]].gxid)
        /\ gt_nextXid = assigned[Len(assigned)] + 1


\* thread t runs the body of GTM_PrepareTransaction on the slot it resolved
IsPrepareStep(t) == pc[t] = "prepare_mark" /\ pc'[t] = "idle"

\* C18: GTM_PrepareTransaction on a handle whose slot is not in state
\* GTM_TXN_PREPARE_IN_PROGRESS returns an error status and leaves the state of
\* the slot unchanged, without stopping the process; only a slot in
\* GTM_TXN_PREPARE_IN_PROGRESS is moved to GTM_TXN_PREPARED.
C18_PrepareNeedsPrepareInProgress ==
    [][\A t \in Threads :
          IsPrepareStep(t) =>
              IF slots[req[t].info[1]].state = "GTM_TXN_PREPARE_IN_PROGRESS"
              THEN /\ slots'[req[t].info[1]].state = "GTM_TXN_PREPARED"
                   /\ req'[t].status = <<"STATUS_OK">>
              ELSE /\ slots' = slots
                   /\ req'[t].status = <<"STATUS_ERROR">>
                   /\ crashed' = crashed]_vars

\* thread t runs the duplicate check of GTM_StartPreparedTransaction
IsGidCheckStep(t) ==
    pc[t] = "start_prepared_check" /\ pc'[t] # "start_prepared_check"

\* the open slots that carry the GID gid
GidOwners(gid) == {h \in Range(open_list) : gid # NULLSTR /\ slots[h].gid = gid}

\* C19: GTM_StartPreparedTransaction with a GID that already resolves to an
\* open transaction is rejected with an error status and changes nothing: the
\* state, the GID and the node string of the target slot are as before, and the
\* slot that owns the GID is untouched.
C19_DuplicateGidRejected ==
    [][\A t \in Threads :
          (IsGidCheckStep(t) /\ GidOwners(req[t].gid) # {}) =>
              /\ pc'[t] = "idle"
              /\ req'[t].status = <<"STATUS_ERROR">>
              /\ req'[t].result = "error"
              /\ slots' = slots
              /\ open_list' = open_list
              /\ crashed' = crashed]_vars

\* a client asked to prepare its second transaction under the GID of the first:
\* the request failed, the second transaction is as it was begun and the first
\* still owns the GID
C19_Witness ==
    \E t \in Threads, h \in Handles :
        /\ pc[t] = "idle"
        /\ req[t].op = "MSG_TXN_START_PREPARED"
        /\ req[t].status = <<"STATUS_ERROR">>
        /\ req[t].result = "error"
        /\ req[t].txn[1] \in Handles
        /\ req[t].txn[1] # h
        /\ slots[req[t].txn[1]].in_use
        /\ slots[req[t].txn[1]].state = "GTM_TXN_STARTING"
        /\ slots[req[t].txn[1]].gid = NULLSTR
        /\ slots[req[t].txn[1]].nodestring = NULLSTR
        /\ GidOwners(req[t].gid) = {h}
        /\ slots[h].state = "GTM_TXN_PREPARE_IN_PROGRESS"

\* the open slots that the disconnect of backend_id of client_id must remove
ToReap(client_id, backend_id) ==
    {h \in Range(open_list) :
        /\ slots[h].client_id = client_id
        /\ (slots[h].proxy_client_id = backend_id \/ backend_id = -1)
        /\ slots[h].state \notin {"GTM_TXN_PREPARED", "GTM_TXN_PREPARE_IN_PROGRESS"}}

\* C20: GTM_RemoveAllTransInfos(client_id, backend_id) removes exactly the open
\* slots whose client matches, whose proxy connection matches (or backend_id is
\* -1) and whose state is neither prepared nor being prepared; every other open
\* slot stays on the open list, in its place and unchanged.
C20_ReapRemovesExactlyMatching ==
    [][\A t \in Threads :
          (nreq'[t] = nreq[t] + 1 /\ req'[t].op = "MSG_BACKEND_DISCONNECT") =>
              /\ open_list' =
                     SelectSeq(open_list,
                               LAMBDA h : h \notin ToReap(t, req'[t].backend))
              /\ \A h \in Handles :
                     IF h \in ToReap(t, req'[t].backend)
                     THEN ~slots'[h].in_use
                     ELSE slots'[h] = slots[h]]_vars

\* a client has dropped its connection behind proxy 1: its transaction begun
\* there is gone, its transaction begun on a direct connection is still open
C20_Witness ==
    \E t \in Threads, gone, kept \in Handles :
        /\ pc[t] = "idle"
        /\ req[t].op = "MSG_BACKEND_DISCONNECT"
        /\ req[t].backend = 1
        /\ ~slots[gone].in_use
        /\ slots[gone].client_id = t
        /\ slots[gone].proxy_client_id = 1
        /\ GlobalTransactionIdIsValid(slots[gone].gxid)
        /\ removed[slots[gone].gxid] = 1
        /\ kept \in Range(open_list)
        /\ slots[kept].client_id = t
        /\ slots[kept].proxy_client_id = -1
        /\ slots[kept].state = "GTM_TXN_STARTING"



(***************************************************************************)
(* The sequences a transaction created, dropped or altered. The sequence   *)
(* manager calls these while it serves a sequence request of the           *)
(* transaction gxid.                                                       *)
(***************************************************************************)
\* the most sequences tracked in one list of one transaction
MaxTrackedSeqs == 1

\* the sequences of the sequence manager
SeqNames == {"seq1"}

GTM_RememberCreatedSequence(gxid, seq) ==
    LET txn == GTM_GXIDToHandle(gxid)
    IN  /\ txn # InvalidTransactionHandle
        /\ Len(slots[txn].created_seqs) < MaxTrackedSeqs
        /\ slots' = [slots EXCEPT ![txn].created_seqs = Append(@, seq)]
        /\ UNCHANGED <<open_list, gt_lastslot, gt_latestCompletedXid, genVars,
                       crashed, pc, req, nreq, locks, histVars>>

GTM_RememberDroppedSequence(gxid, seq) ==
    LET txn == GTM_GXIDToHandle(gxid)
    IN  /\ txn # InvalidTransactionHandle
        /\ Len(slots[txn].dropped_seqs) < MaxTrackedSeqs
        /\ slots' = [slots EXCEPT ![txn].dropped_seqs = Append(@, seq)]
        /\ UNCHANGED <<open_list, gt_lastslot, gt_latestCompletedXid, genVars,
                       crashed, pc, req, nreq, locks, histVars>>

\* gtm_lcons: the altered sequence goes to the head of the list
GTM_RememberAlteredSequence(gxid, seq) ==
    LET txn == GTM_GXIDToHandle(gxid)
    IN  /\ txn # InvalidTransactionHandle
        /\ Len(slots[txn].altered_seqs) < MaxTrackedSeqs
        /\ slots' = [slots EXCEPT ![txn].altered_seqs = <<seq>> \o @]
        /\ UNCHANGED <<open_list, gt_lastslot, gt_latestCompletedXid, genVars,
                       crashed, pc, req, nreq, locks, histVars>>

(***************************************************************************)
(* SpecTrack: two clients begin transactions that create, drop and alter   *)
(* sequences, roll them back, and disconnect.                              *)
(***************************************************************************)
NextTrack ==
    \/ Startup({FirstNormalGlobalTransactionId})
    \/ \E t \in Threads :
           ProcessBeginTransactionGetGXIDCommand(
               t, MaxRequestsConc, "MSG_TXN_BEGIN_GETGXID", <<"">>, <<-1>>)
    \/ \E t \in Threads : GetGXID(t)
    \/ \E g \in OpenGxids, seq \in SeqNames :
           \/ GTM_RememberCreatedSequence(g, seq)
           \/ GTM_RememberDroppedSequence(g, seq)
           \/ GTM_RememberAlteredSequence(g, seq)
    \/ \E t \in Threads, g \in OpenGxids :
           ReceiveByGXID(t, MaxRequestsConc, "MSG_TXN_ROLLBACK", <<g>>, <<>>,
                         NULLSTR, NULLSTR)
    \/ \E t \in Threads : Reap(t, MaxRequestsConc, -1)
    \/ \E t \in Threads :
           \/ RollbackResolve(t)
           \/ RollbackMark(t)
           \/ RollbackRemove(t)

SpecTrack == Init /\ [][NextTrack]_vars

\* the calls made into the sequence manager by the step
NewSeqCalls == SubSeq(seq_calls', Len(seq_calls) + 1, Len(seq_calls'))

\* the abort-flavoured hooks ran for every sequence slot h was tracking
AbortHooksRan(h) ==
    /\ \A i \in 1 .. Len(slots[h].created_seqs) :
           <<"GTM_SeqRemoveCreated", slots[h].created_seqs[i]>> \in Range(NewSeqCalls)
    /\ \A i \in 1 .. Len(slots[h].dropped_seqs) :
           <<"GTM_SeqRestoreDropped", slots[h].dropped_seqs[i]>> \in Range(NewSeqCalls)
    /\ \A i \in 1 .. Len(slots[h].altered_seqs) :
           <<"GTM_SeqRestoreAltered", slots[h].altered_seqs[i]>> \in Range(NewSeqCalls)

\* C21: every slot the reaper removes, in whatever state it was, has its
\* created sequences dropped and its dropped and altered sequences restored
\* by the step that marks it free.
C21_ReapRunsAbortHooks ==
    [][IsReapStep =>
          \A h \in Handles :
              (slots[h].in_use /\ ~slots'[h].in_use) => AbortHooksRan(h)]_vars



(***************************************************************************)
(* MSG_TXN_GET_GID_DATA: ProcessGetGIDDataTransactionCommand. The handler  *)
(* looks the GID up under the read lock, begins the auxiliary transaction  *)
(* under the write lock, assigns its GXID under gt_XidGenLock and reads    *)
(* the prepared transaction through its handle with no lock held.          *)
(***************************************************************************)
\* the message is read and prepared_txn = GTM_GIDToHandle(gid)
GetGIDDataLookup(t, budget, gid) ==
    LET prepared_txn == GTM_GIDToHandle(gid)
    IN  /\ Receives(t, budget)
        /\ req' = [req EXCEPT ![t] =
                     [NoReq EXCEPT !.op = "MSG_TXN_GET_GID_DATA", !.gid = gid,
                                   !.info = <<prepared_txn>>,
                                   !.result = IF prepared_txn = InvalidTransactionHandle
                                              THEN "error" ELSE "pending"]]
        /\ pc' = [pc EXCEPT ![t] = IF prepared_txn = InvalidTransactionHandle
                                   THEN "idle" ELSE "gid_begin"]
        /\ UNCHANGED <<tableVars, genVars, crashed, histVars>>

\* txn = GTM_BeginTransaction(isolevel, readonly, NULL)
GetGIDDataBegin(t) ==
    LET r == GTM_BeginTransactionMulti(<<NULLSTR>>, <<-1>>, t)
    IN  /\ At(t, "gid_begin")
        /\ slots' = r.tb.slots
        /\ open_list' = r.tb.open
        /\ gt_lastslot' = r.tb.last
        /\ crashed' = Ends(r.result)
        /\ pc' = [pc EXCEPT ![t] = IF r.result = "ok" THEN "getgxid" ELSE "idle"]
        /\ req' = [req EXCEPT ![t].txn = r.txns,
                              ![t].result = IF r.result = "ok" THEN "pending"
                                            ELSE r.result]
        /\ UNCHANGED <<gt_latestCompletedXid, genVars, nreq, locks, histVars>>

\* GTM_GetGIDData(prepared_txn, &prepared_gxid, &nodestring), then the reply
GTM_GetGIDData(t) ==
    LET r == req[t]
        prepared_txn == r.info[1]
    IN  /\ At(t, "gid_data")
        /\ IF GTM_HandleToTransactionInfo(prepared_txn) = NULL
           THEN HandlerEnds(t, [r EXCEPT !.result = "error"])
           ELSE HandlerEnds(t, [r EXCEPT !.out = <<r.out[1], slots[prepared_txn].gxid,
                                                   slots[prepared_txn].nodestring>>,
                                         !.result = "ok"])
        /\ UNCHANGED <<tableVars, genVars, crashed, nreq, locks, histVars>>

(***************************************************************************)
(* SpecGid: two clients begin transactions, start preparing them under a   *)
(* GID, commit them, and ask for the data of a GID.                        *)
(***************************************************************************)
NextGid ==
    \/ Startup({FirstNormalGlobalTransactionId})
    \/ \E t \in Threads, sids \in {<<"">>, <<"", "">>} :
           ProcessBeginTransactionGetGXIDCommand(
               t, MaxRequestsSeq,
               IF Len(sids) = 1 THEN "MSG_TXN_BEGIN_GETGXID"
               ELSE "MSG_TXN_BEGIN_GETGXID_MULTI",
               sids, [i \in 1 .. Len(sids) |-> -1])
    \/ \E t \in Threads : GetGXID(t)
    \/ \E t \in Threads, g \in OpenGxids :
           ReceiveByGXID(t, MaxRequestsSeq, "MSG_TXN_START_PREPARED", <<g>>, <<>>,
                         "G1", "n1")
    \/ \E t \in Threads, g \in OpenGxids :
           ReceiveByGXID(t, MaxRequestsSeq, "MSG_TXN_COMMIT", <<g>>, <<>>,
                         NULLSTR, NULLSTR)
    \/ \E t \in Threads, gid \in {"G1", "G2"} :
           GetGIDDataLookup(t, MaxRequestsSeq, gid)
    \/ \E t \in Threads :
           \/ StartPreparedResolve(t)
           \/ StartPreparedCheck(t)
           \/ StartPreparedStore(t)
           \/ CommitResolve(t)
           \/ CommitMark(t)
           \/ CommitRemove(t)
           \/ GetGIDDataBegin(t)
           \/ GTM_GetGIDData(t)

SpecGid == Init /\ [][NextGid]_vars

\* thread t reads a MSG_TXN_GET_GID_DATA message in the step
IsGetGIDDataLookup(t) ==
    /\ nreq'[t] = nreq[t] + 1
    /\ req'[t].op = "MSG_TXN_GET_GID_DATA"

\* the slots that become in use in the step
NewlyInUse == {h \in Handles : ~slots[h].in_use /\ slots'[h].in_use}

\* C22: MSG_TXN_GET_GID_DATA for a GID that no open transaction carries fails
\* and changes neither the table nor gt_nextXid; for a GID that resolved, the
\* begin takes exactly one slot, and a successful reply carries a new GXID, the
\* GXID of the transaction prepared under the GID, which differs from the new
\* one, and its node string, the prepared slot being left as it was.
C22_GetGIDData ==
    [][\A t \in Threads :
          /\ (IsGetGIDDataLookup(t) /\ GidOwners(req'[t].gid) = {})
                => /\ req'[t].result = "error"
                   /\ pc'[t] = "idle"
                   /\ UNCHANGED <<tableVars, gt_nextXid>>
          /\ (pc[t] = "gid_begin" /\ pc'[t] # "gid_begin" /\ FreeSlots # {})
                => /\ Cardinality(NewlyInUse) = 1
                   /\ \A h \in Handles \ NewlyInUse : slots'[h] = slots[h]
          /\ (pc[t] = "gid_data" /\ pc'[t] = "idle" /\ req'[t].result = "ok")
                => /\ UNCHANGED slots
                   /\ slots[req[t].txn[1]].gxid = req'[t].out[1]
                   /\ req'[t].out[1] # req'[t].out[2]
                   /\ \E h \in GidOwners(req[t].gid) :
                         /\ h # req[t].txn[1]
                         /\ slots[h].gxid = req'[t].out[2]
                         /\ slots[h].nodestring = req'[t].out[3]]_vars



(***************************************************************************)
(* The lifecycle functions called on a handle of any value.                *)
(***************************************************************************)
\* the handles tried: every index of the array, -1, and the two values past it
AnyHandles == -1 .. (GTM_MAX_GLOBAL_TRANSACTIONS + 1)

\* GTM_CommitTransactionMulti, GTM_RollbackTransactionMulti,
\* GTM_StartPreparedTransaction or GTM_PrepareTransaction is called with handle
CallWithHandle(t, budget, op, handle) ==
    /\ Receives(t, budget)
    /\ req' = [req EXCEPT ![t] =
                 [NoReq EXCEPT !.op = op, !.txn = <<handle>>, !.ii = 1,
                               !.gid = IF op = "MSG_TXN_START_PREPARED"
                                       THEN "G1" ELSE NULLSTR,
                               !.nodestring = IF op = "MSG_TXN_START_PREPARED"
                                              THEN "n1" ELSE NULLSTR,
                               !.result = "pending"]]
    /\ pc' = [pc EXCEPT ![t] = AfterLookup(op)]
    /\ UNCHANGED <<tableVars, genVars, crashed, histVars>>

\* thread t is about to call GTM_HandleToTransactionInfo(txn[ii])
AtResolve(t) ==
    pc[t] \in {"commit_resolve", "rollback_resolve", "start_prepared_resolve",
               "prepare_resolve"}

\* GTM_HandleToTransactionInfo finds a non-zero gti_in_use past the end of the
\* array and returns the address past the array; the caller takes the lock
\* at that address and writes gti_state there: memory that is not a slot is
\* overwritten
ResolveBeyondArray(t) ==
    LET r == req[t]
    IN  /\ ~crashed
        /\ AtResolve(t)
        /\ HandleToTransactionInfo_Reads(slots, r.txn[r.ii], TRUE) # NULL
        /\ r.txn[r.ii] \notin Handles
        /\ crashed' = TRUE
        /\ req' = [req EXCEPT ![t].info = Append(@, r.txn[r.ii]),
                              ![t].result = "crash"]
        /\ pc' = [pc EXCEPT ![t] = "idle"]
        /\ UNCHANGED <<tableVars, genVars, nreq, locks, histVars>>

(***************************************************************************)
(* SpecHandle: transactions are begun, and the lifecycle functions are     *)
(* called on handles of any value.                                         *)
(***************************************************************************)
NextHandle ==
    \/ Startup({FirstNormalGlobalTransactionId})
    \/ \E t \in Threads :
           ProcessBeginTransactionGetGXIDCommand(
               t, MaxRequestsConc, "MSG_TXN_BEGIN_GETGXID", <<"">>, <<-1>>)
    \/ \E t \in Threads : GetGXID(t)
    \/ \E t \in Threads, handle \in AnyHandles,
          op \in {"MSG_TXN_COMMIT", "MSG_TXN_ROLLBACK", "MSG_TXN_START_PREPARED",
                  "MSG_TXN_PREPARE"} :
           CallWithHandle(t, MaxRequestsConc, op, handle)
    \/ \E t \in Threads :
           \/ CommitResolve(t)
           \/ CommitMark(t)
           \/ CommitRemove(t)
           \/ RollbackResolve(t)
           \/ RollbackMark(t)
           \/ RollbackRemove(t)
           \/ StartPreparedResolve(t)
           \/ StartPreparedCheck(t)
           \/ StartPreparedStore(t)
           \/ PrepareResolve(t)
           \/ PrepareMark(t)
           \/ ResolveBeyondArray(t)

SpecHandle == Init /\ [][NextHandle]_vars

\* the handle names a slot of the array that is in use
Accepted(handle) == handle \in Handles /\ slots[handle].in_use

\* C23: a handle is accepted only if it is an index of the array whose slot is
\* in use. For every other handle, GTM_MAX_GLOBAL_TRANSACTIONS and
\* InvalidTransactionHandle included, the lookup yields NULL, and commit,
\* rollback, prepare and start-prepared answer STATUS_ERROR for it and leave
\* the table as it is.
C23_OnlyInUseHandlesAccepted ==
    [][\A t \in Threads :
          (AtResolve(t) /\ ~crashed /\ req'[t] # req[t])
             => IF Accepted(req[t].txn[req[t].ii])
                THEN req'[t].info = Append(req[t].info, req[t].txn[req[t].ii])
                ELSE /\ ~crashed'
                     /\ Len(req'[t].status) = Len(req[t].status) + 1
                     /\ req'[t].status[Len(req'[t].status)] = "STATUS_ERROR"
                     /\ UNCHANGED tableVars]_vars



(***************************************************************************)
(* The standby. One thread of the standby serves the connection of the     *)
(* primary and replays the calls in the order they were sent; s is the     *)
(* transaction table of the standby, c the call.                           *)
(***************************************************************************)
\* a standby is connected before the primary serves requests: it starts from
\* the GXIDs of the primary, and it gives the connection a client identifier
\* of its own
ConnectStandby(synchronously, thr_client_id) ==
    /\ gt_gtm_state = "GTM_RUNNING"
    /\ ~standby_conn
    /\ open_list = <<>>
    /\ assigned = <<>>
    /\ \A t \in Threads : pc[t] = "idle"
    /\ standby_conn' = TRUE
    /\ Backup_synchronously' = synchronously
    /\ sb' = [StandbyInit EXCEPT !.next = gt_nextXid,
                                 !.latest = gt_latestCompletedXid,
                                 !.control = ControlXid,
                                 !.thr_client_id = thr_client_id]
    /\ UNCHANGED <<tableVars, gt_nextXid, gt_gtm_state, ControlXid, ControlFile,
                   standby, chan, crashed, pc, req, nreq, locks, histVars>>

\* GTM_BkupBeginTransactionMulti: the client_id of the call is not passed on to
\* GTM_BeginTransactionMulti, which takes thr_client_id of the serving thread
GTM_BkupBeginTransactionMulti(s, c) ==
    LET r == BeginLoop([slots |-> s.slots, open |-> s.open, last |-> s.last],
                       c.sess, c.connid, s.thr_client_id, 1, <<>>)
    IN  [s EXCEPT !.slots = r.tb.slots, !.open = r.tb.open, !.last = r.tb.last]

\* gt_nextXid of the standby after a begin that carries gxid
BkupNextXid(next, gxid) ==
    LET advanced == IF GlobalTransactionIdPrecedesOrEquals(next, gxid)
                    THEN GxidWrap(gxid + 1) ELSE next
    IN  IF ~GlobalTransactionIdIsValid(advanced)
        THEN FirstNormalGlobalTransactionId ELSE advanced

RECURSIVE BkupAssignLoop(_, _, _, _)
\* the loop of GTM_BkupBeginTransactionGetGXIDMulti under gt_TransArrayLock
BkupAssignLoop(s, txn, gxid, ii) ==
    IF ii > Len(txn) THEN s
    ELSE BkupAssignLoop(
           [s EXCEPT !.slots[txn[ii]].gxid = gxid[ii],
                     !.next = BkupNextXid(s.next, gxid[ii])],
           txn, gxid, ii + 1)

GTM_BkupBeginTransactionGetGXIDMulti(s, c) ==
    LET r == BeginLoop([slots |-> s.slots, open |-> s.open, last |-> s.last],
                       c.sess, c.connid, s.thr_client_id, 1, <<>>)
        begun == [s EXCEPT !.slots = r.tb.slots, !.open = r.tb.open,
                           !.last = r.tb.last]
        a == BkupAssignLoop(begun, r.txns, c.gxid, 1)
        save_control == NeedSaveControl(a.next, a.control)
    IN  IF r.result # "ok" THEN begun
        ELSE [a EXCEPT !.control = IF save_control THEN a.next ELSE a.control,
                       !.file = IF save_control THEN a.next ELSE a.file]

\* the handlers of commit and rollback called with is_backup: the GXIDs of
\* the call are looked up, the slots found are marked and then removed
BkupFinish(s, c, state) ==
    LET txn == [i \in 1 .. Len(c.gxid) |->
                  GTM_GXIDToHandle_Internal(s.slots, s.open, c.gxid[i])]
        info == [i \in 1 .. Len(c.gxid) |->
                  GTM_HandleToTransactionInfo_In(s.slots, txn[i])]
        marked == [h \in Handles |->
                     IF h \in Range(info) THEN [s.slots[h] EXCEPT !.state = state]
                     ELSE s.slots[h]]
        tb == RemoveLoop([slots |-> marked, open |-> s.open, latest |-> s.latest,
                          removed |-> [g \in Gxids |-> 0], seq_calls |-> <<>>],
                         info, 1)
    IN  [s EXCEPT !.slots = tb.slots, !.open = tb.open, !.latest = tb.latest]

\* ProcessStartPreparedTransactionCommand with is_backup
BkupStartPrepared(s, c) ==
    LET txn == GTM_GXIDToHandle_Internal(s.slots, s.open, c.gxid[1])
    IN  IF GTM_HandleToTransactionInfo_In(s.slots, txn) = NULL THEN s
        ELSE IF GTM_GIDToHandle_In(s.slots, s.open, c.gid) # InvalidTransactionHandle
        THEN s
        ELSE [s EXCEPT !.slots[txn] =
                [@ EXCEPT !.state = "GTM_TXN_PREPARE_IN_PROGRESS",
                          !.nodestring = c.nodestring, !.gid = c.gid]]

\* ProcessPrepareTransactionCommand with is_backup; asserts: the build has
\* assertions enabled
BkupPrepare(s, c, asserts) ==
    LET txn == GTM_GXIDToHandle_Internal(s.slots, s.open, c.gxid[1])
    IN  IF GTM_HandleToTransactionInfo_In(s.slots, txn) = NULL THEN s
        ELSE [s EXCEPT !.slots[txn].state = "GTM_TXN_PREPARED",
                       !.failed = asserts /\ s.slots[txn].state
                                                # "GTM_TXN_PREPARE_IN_PROGRESS"]

\* the standby's handler of call c
Replay(s, c, asserts) ==
    CASE c.call = "bkup_begin_transaction" -> GTM_BkupBeginTransactionMulti(s, c)
      [] c.call \in {"bkup_begin_transaction_gxid", "bkup_begin_transaction_multi"} ->
            GTM_BkupBeginTransactionGetGXIDMulti(s, c)
      [] c.call \in {"bkup_commit_transaction", "bkup_commit_prepared_transaction",
                     "bkup_commit_transaction_multi"} ->
            BkupFinish(s, c, "GTM_TXN_COMMIT_IN_PROGRESS")
      [] c.call \in {"bkup_abort_transaction", "bkup_abort_transaction_multi"} ->
            BkupFinish(s, c, "GTM_TXN_ABORT_IN_PROGRESS")
      [] c.call = "backup_start_prepared_transaction" -> BkupStartPrepared(s, c)
      [] c.call = "bkup_prepare_transaction" -> BkupPrepare(s, c, asserts)

\* the standby reads the next call of the connection and replays it
StandbyReplays(asserts) ==
    /\ chan # <<>>
    /\ ~sb.failed
    /\ sb.pc = "idle"
    /\ sb' = Replay(sb, Head(chan), asserts)
    /\ chan' = Tail(chan)
    /\ UNCHANGED <<tableVars, gt_nextXid, gt_gtm_state, ControlXid, ControlFile,
                   standby, standby_conn, Backup_synchronously, crashed, pc, req,
                   nreq, locks, histVars>>



(***************************************************************************)
(* SpecMirror: a primary with a standby connected, synchronously or not,   *)
(* serves a direct client and a proxy; the standby replays the calls.      *)
(***************************************************************************)
NextMirror ==
    \/ Startup({FirstNormalGlobalTransactionId})
    \/ \E synchronously \in BOOLEAN : ConnectStandby(synchronously, 1)
    \/ \E t \in Threads : ProcessBeginTransactionCommand(t, MaxRequestsConc, "")
    \/ \E t \in Threads, sids \in {<<"">>, <<"", "">>} :
           ProcessBeginTransactionGetGXIDCommand(
               t, MaxRequestsConc,
               IF Len(sids) = 1 THEN "MSG_TXN_BEGIN_GETGXID"
               ELSE "MSG_TXN_BEGIN_GETGXID_MULTI",
               sids, [i \in 1 .. Len(sids) |-> -1])
    \/ \E t \in Threads, g \in OpenGxids :
           \/ ReceiveByGXID(t, MaxRequestsConc, "MSG_TXN_START_PREPARED", <<g>>, <<>>,
                            "G1", "n1")
           \/ ReceiveByGXID(t, MaxRequestsConc, "MSG_TXN_PREPARE", <<g>>, <<>>,
                            NULLSTR, NULLSTR)
           \/ ReceiveByGXID(t, MaxRequestsConc, "MSG_TXN_COMMIT", <<g>>, <<>>,
                            NULLSTR, NULLSTR)
           \/ ReceiveByGXID(t, MaxRequestsConc, "MSG_TXN_ROLLBACK", <<g>>, <<>>,
                            NULLSTR, NULLSTR)
    \/ \E t \in Threads, gs \in SeqsOf(OpenGxids, 2, 2) :
           /\ gs[1] # gs[2]
           /\ \/ ReceiveByGXID(t, MaxRequestsConc, "MSG_TXN_COMMIT_PREPARED", gs, <<>>,
                               NULLSTR, NULLSTR)
              \/ ReceiveByGXID(t, MaxRequestsConc, "MSG_TXN_COMMIT_MULTI", gs, <<>>,
                               NULLSTR, NULLSTR)
              \/ ReceiveByGXID(t, MaxRequestsConc, "MSG_TXN_ROLLBACK_MULTI", gs, <<>>,
                               NULLSTR, NULLSTR)
    \/ \E t \in Threads : GetGIDDataLookup(t, MaxRequestsConc, "G1")
    \/ \E t \in Threads :
           \/ GetGXID(t)
           \/ LookupNext(t)
           \/ StartPreparedResolve(t)
           \/ StartPreparedCheck(t)
           \/ StartPreparedStore(t)
           \/ PrepareResolve(t)
           \/ PrepareMark(t)
           \/ CommitResolve(t)
           \/ CommitMark(t)
           \/ CommitRemove(t)
           \/ RollbackResolve(t)
           \/ RollbackMark(t)
           \/ RollbackRemove(t)
           \/ GetGIDDataBegin(t)
           \/ GTM_GetGIDData(t)
           \/ MirrorCall(t)
           \/ gtm_sync_standby(t)
           \/ Reply(t)
    \/ \E asserts \in BOOLEAN : StandbyReplays(asserts)

SpecMirror == Init /\ [][NextMirror]_vars

\* the requests that change the state of the primary
StateChangingOps ==
    {"MSG_TXN_BEGIN", "MSG_TXN_BEGIN_GETGXID", "MSG_TXN_BEGIN_GETGXID_MULTI",
     "MSG_TXN_START_PREPARED", "MSG_TXN_PREPARE", "MSG_TXN_COMMIT",
     "MSG_TXN_COMMIT_PREPARED", "MSG_TXN_COMMIT_MULTI", "MSG_TXN_ROLLBACK",
     "MSG_TXN_ROLLBACK_MULTI"}

\* the request of thread t succeeded for its (first) transaction
Succeeded(r) ==
    /\ r.result = "ok"
    /\ r.status # <<>> => r.status[1] = "STATUS_OK"

\* thread t writes its reply in the step
RepliesNow(t) == req[t].result = "pending" /\ req'[t].result \notin {"pending", "none"}

\* thread t puts a call on the connection to the standby in the step
MirrorsNow(t) ==
    /\ pc'[t] # pc[t]
    /\ Len(chan') = Len(chan) + 1
    /\ chan'[Len(chan')] = req[t].call

\* C24: with a standby connected, the handler of every state-changing request
\* calls the standby after its changes to the table and before it writes the
\* reply: from the call on the handler leaves the table and the GXID generator
\* as they are, the call is made while the reply is still to be written, and
\* a reply of success is written only after the call was made.
C24_MirrorAfterChangeBeforeReply ==
    [][\A t \in Threads :
          /\ MirrorsNow(t) =>
                /\ req[t].result = "pending" /\ req'[t].result = "pending"
                /\ req'[t].mirrored
                /\ UNCHANGED <<tableVars, gt_nextXid>>
          /\ (req[t].mirrored /\ req[t].result = "pending" /\ req'[t] # req[t]) =>
                UNCHANGED <<tableVars, gt_nextXid>>
          /\ (RepliesNow(t) /\ standby_conn /\ req'[t].op \in StateChangingOps
                /\ Succeeded(req'[t])) =>
                req[t].mirrored]_vars

\* a state-changing request was answered with success after its call to the
\* standby, which the standby has replayed
C24_Witness ==
    \E t \in Threads :
        /\ pc[t] = "idle"
        /\ req[t].op = "MSG_TXN_COMMIT"
        /\ Succeeded(req[t])
        /\ req[t].mirrored
        /\ chan = <<>>
        /\ sb.open = <<>>
        /\ sb.latest = req[t].gxid[1]



\* C25: with Backup_synchronously set, the handler of a client that is not a
\* proxy writes its reply, whenever it has called the standby, only after it
\* has waited for the standby (gtm_sync_standby); this includes the begin of
\* the auxiliary transaction of MSG_TXN_GET_GID_DATA.
C25_SyncBeforeReply ==
    [][\A t \in Threads :
          (RepliesNow(t) /\ req[t].mirrored /\ Backup_synchronously
             /\ remote_type(t) # "GTM_NODE_GTM_PROXY")
          => req[t].synced]_vars



(***************************************************************************)
(* SpecReplay: one client sends its requests one after the other to a      *)
(* primary started anywhere in the GXID space; the standby replays the     *)
(* calls in order.                                                         *)
(***************************************************************************)
\* requests the client of SpecReplay sends
MaxRequestsReplay == 4

ReplayStartGxids ==
    {FirstNormalGlobalTransactionId, MaxGlobalTransactionId - 1}

NextReplay ==
    \/ Startup(ReplayStartGxids)
    \/ \E thr_client_id \in {1, 2} : ConnectStandby(FALSE, thr_client_id)
    \/ \E sids \in {<<"">>, <<"S1">>, <<"", "">>} :
           ProcessBeginTransactionGetGXIDCommand(
               1, MaxRequestsReplay,
               IF Len(sids) = 1 THEN "MSG_TXN_BEGIN_GETGXID"
               ELSE "MSG_TXN_BEGIN_GETGXID_MULTI",
               sids, [i \in 1 .. Len(sids) |-> -1])
    \/ \E g \in Range(assigned) :
           \/ ReceiveByGXID(1, MaxRequestsReplay, "MSG_TXN_START_PREPARED", <<g>>, <<>>,
                            "G1", "n1")
           \/ ReceiveByGXID(1, MaxRequestsReplay, "MSG_TXN_PREPARE", <<g>>, <<>>,
                            NULLSTR, NULLSTR)
           \/ ReceiveByGXID(1, MaxRequestsReplay, "MSG_TXN_COMMIT", <<g>>, <<>>,
                            NULLSTR, NULLSTR)
           \/ ReceiveByGXID(1, MaxRequestsReplay, "MSG_TXN_ROLLBACK", <<g>>, <<>>,
                            NULLSTR, NULLSTR)
    \/ \E gs \in SeqsOf(Range(assigned), 2, 2) :
           /\ gs[1] # gs[2]
           /\ ReceiveByGXID(1, MaxRequestsReplay, "MSG_TXN_COMMIT_PREPARED", gs, <<>>,
                            NULLSTR, NULLSTR)
    \/ GetGXID(1)
    \/ LookupNext(1)
    \/ StartPreparedResolve(1)
    \/ StartPreparedCheck(1)
    \/ StartPreparedStore(1)
    \/ PrepareResolve(1)
    \/ PrepareMark(1)
    \/ CommitResolve(1)
    \/ CommitMark(1)
    \/ CommitRemove(1)
    \/ RollbackResolve(1)
    \/ RollbackMark(1)
    \/ RollbackRemove(1)
    \/ MirrorCall(1)
    \/ Reply(1)
    \/ \E asserts \in BOOLEAN : StandbyReplays(asserts)

SpecReplay == Init /\ [][NextReplay]_vars

\* no handler is running and the standby has replayed every call
Quiescent ==
    /\ standby_conn
    /\ chan = <<>>
    /\ \A t \in Threads : pc[t] = "idle"
    /\ ~crashed
    /\ ~sb.failed

\* the open transactions that have a GXID: GXID, state and GID of each
OpenTxns(sl, ol) ==
    {<<sl[h].gxid, sl[h].state, sl[h].gid>> :
        h \in {k \in Range(ol) : GlobalTransactionIdIsValid(sl[k].gxid)}}

\* C26: once the calls of a sequence of begin-with-GXID, start-prepared,
\* prepare, commit, commit-prepared and rollback requests have all been
\* replayed in order, the open transactions of the standby have the same
\* GXIDs, each with the same state and GID, as those of the primary, and
\* gt_nextXid of the standby is not behind that of the primary.
C26_Lockstep ==
    Quiescent =>
        /\ OpenTxns(sb.slots, sb.open) = OpenTxns(slots, open_list)
        /\ GlobalTransactionIdFollowsOrEquals(sb.next, gt_nextXid)



\* the standby replays a call that begins transactions
ReplaysBegin ==
    /\ chan # <<>>
    /\ chan' = Tail(chan)
    /\ Head(chan).call \in {"bkup_begin_transaction", "bkup_begin_transaction_gxid",
                            "bkup_begin_transaction_multi"}

\* C27: when the standby replays a mirrored begin, every slot it creates
\* records the client_id shipped in the call for that transaction, i.e. the
\* client that owns the transaction on the primary.
C27_ReplayRecordsShippedClient ==
    [][ReplaysBegin =>
          \A i \in 1 .. Len(Head(chan).gxid) :
              \A h \in Range(sb'.open) :
                  (sb'.slots[h].gxid = Head(chan).gxid[i] /\ h \notin Range(sb.open))
                      => sb'.slots[h].client_id = Head(chan).client_id[i]]_vars



\* C28: replaying a mirror call twice on the standby leaves the table that
\* replaying it once leaves, whatever the call: the second application
\* creates no second slot for the GXID and changes nothing.
C28_ReplayTwiceAsOnce ==
    (chan # <<>> /\ ~sb.failed) =>
        \A asserts \in BOOLEAN :
            LET once == Replay(sb, Head(chan), asserts)
            IN  ~once.failed => Replay(once, Head(chan), asserts) = once



(***************************************************************************)
(* SpecFeed: a primary started from any value of the control file, reserved *)
(* ones included, begins and rolls back transactions for one client; the   *)
(* standby, started from the same value, is fed the GXIDs of the begins.   *)
(***************************************************************************)
FeedStartGxids == StartGxids \cup {1, MaxGlobalTransactionId - 1}

NextFeed ==
    \/ Startup(FeedStartGxids)
    \/ ConnectStandby(FALSE, 1)
    \/ \E sids \in {<<"">>, <<"", "">>} :
           ProcessBeginTransactionGetGXIDCommand(
               1, MaxRequestsSeq,
               IF Len(sids) = 1 THEN "MSG_TXN_BEGIN_GETGXID"
               ELSE "MSG_TXN_BEGIN_GETGXID_MULTI",
               sids, [i \in 1 .. Len(sids) |-> -1])
    \/ \E g \in Range(assigned) :
           ReceiveByGXID(1, MaxRequestsSeq, "MSG_TXN_ROLLBACK", <<g>>, <<>>,
                         NULLSTR, NULLSTR)
    \/ GetGXID(1)
    \/ RollbackResolve(1)
    \/ RollbackMark(1)
    \/ RollbackRemove(1)
    \/ MirrorCall(1)
    \/ Reply(1)
    \/ StandbyReplays(FALSE)

SpecFeed == Init /\ [][NextFeed]_vars

\* the standby replays a begin that carries GXIDs and finds room for it
ReplaysBeginWithGXID ==
    /\ chan # <<>>
    /\ chan' = Tail(chan)
    /\ Head(chan).call \in {"bkup_begin_transaction_gxid",
                            "bkup_begin_transaction_multi"}
    /\ \E h \in Range(sb'.open) : h \notin Range(sb.open)

\* g + 1, or the first normal GXID when g + 1 is a reserved value
NextAfter(g) ==
    IF GxidWrap(g + 1) < FirstNormalGlobalTransactionId
    THEN FirstNormalGlobalTransactionId ELSE GxidWrap(g + 1)

\* the modular maximum of next and the successor of g
ModularMax(next, g) ==
    IF GlobalTransactionIdPrecedes(next, NextAfter(g)) THEN NextAfter(g) ELSE next

RECURSIVE FedNextXid(_, _, _)
FedNextXid(next, gxid, ii) ==
    IF ii > Len(gxid) THEN next
    ELSE FedNextXid(ModularMax(next, gxid[ii]), gxid, ii + 1)

\* C29: when the standby replays a begin carrying GXID g, gt_nextXid becomes
\* the modular maximum of its previous value and g + 1, g + 1 being replaced
\* by the first normal GXID when it is a reserved value; gt_nextXid does not
\* move backwards and is not a reserved value afterwards.
C29_StandbyNextXidFed ==
    [][ReplaysBeginWithGXID =>
          /\ sb'.next = FedNextXid(sb.next, Head(chan).gxid, 1)
          /\ ~GlobalTransactionIdPrecedes(sb'.next, sb.next)
          /\ sb'.next >= FirstNormalGlobalTransactionId]_vars



(***************************************************************************)
(* The locks a thread holds. In the actions above a critical section is    *)
(* one step, so that no lock is held between two steps. Here the sections  *)
(* that decide on a write of the control file are split at the release of  *)
(* their lock: GTM_GetGlobalTransactionIdMulti under gt_XidGenLock on the  *)
(* primary, and the loop of GTM_BkupBeginTransactionGetGXIDMulti under     *)
(* gt_TransArrayLock on the standby.                                       *)
(***************************************************************************)
\* GTM_RWLockRelease that gives back only a lock held for reading
Released_OnlyRead(held, lock) == IF lock.mode = "R" THEN held \ {lock} ELSE held

\* GTM_RWLockRelease that releases nothing
Released_Nothing(held, lock) == held

\* GTM_RWLockRelease
Released(held, lock) == held \ {lock}

\* GTM_GetGlobalTransactionIdMulti up to the release of gt_XidGenLock: the
\* GXIDs are assigned and the write of the control file is decided; the paths
\* that leave by ereport(ERROR) release the lock first
GetGXIDAcquire(t) ==
    LET g == GTM_GetGlobalTransactionIdMulti(req[t].txn)
        save_control == g.result = "ok" /\ NeedSaveControl(g.xid, ControlXid)
        result == HandlerChecksGXID(req[t].op, g)
        after == IF AfterGetGXID(req[t].op, result) = "idle"
                 THEN AfterLocal(t, [req[t] EXCEPT !.out = g.gxids,
                                                   !.result = result])
                 ELSE [req[t] EXCEPT !.out = g.gxids, !.result = "pending"]
    IN  /\ At(t, "getgxid")
        /\ \A u \in Threads : "gt_XidGenLock" \notin req[u].held
        /\ slots' = g.slots
        /\ gt_nextXid' = g.next
        /\ assigned' = g.assigned
        /\ ControlXid' = IF save_control THEN g.xid ELSE ControlXid
        /\ crashed' = Ends(g.result)
        /\ pc' = [pc EXCEPT ![t] = IF g.result # "ok" THEN AfterSave(after)
                                   ELSE IF save_control THEN "gen_release_save"
                                   ELSE "gen_release"]
        /\ req' = [req EXCEPT ![t] =
                     IF g.result # "ok" THEN after
                     ELSE [after EXCEPT !.held = @ \cup {"gt_XidGenLock"}]]
        /\ UNCHANGED <<open_list, gt_lastslot, gt_latestCompletedXid, gt_gtm_state,
                       ControlFile, standby, mirrorVars, nreq, locks, removed, seq_calls>>

\* GTM_RWLockRelease(&GTMTransactions.gt_XidGenLock) at the end of the call
GetGXIDRelease(t) ==
    /\ At(t, "gen_release") \/ At(t, "gen_release_save")
    /\ req' = [req EXCEPT ![t].held = Released(@, "gt_XidGenLock")]
    /\ pc' = [pc EXCEPT ![t] = IF pc[t] = "gen_release_save" THEN "save_control"
                               ELSE AfterSave(req[t])]
    /\ UNCHANGED <<tableVars, genVars, crashed, nreq, locks, histVars>>

BkupBeginCalls == {"bkup_begin_transaction_gxid", "bkup_begin_transaction_multi"}

\* GTM_BkupBeginTransactionGetGXIDMulti up to the release of gt_TransArrayLock;
\* when the slots cannot be had it leaves by ereport(ERROR) before the lock
StandbyBeginAcquire ==
    LET c == Head(chan)
        r == BeginLoop([slots |-> sb.slots, open |-> sb.open, last |-> sb.last],
                       c.sess, c.connid, sb.thr_client_id, 1, <<>>)
        begun == [sb EXCEPT !.slots = r.tb.slots, !.open = r.tb.open,
                            !.last = r.tb.last]
        a == BkupAssignLoop(begun, r.txns, c.gxid, 1)
        save_control == NeedSaveControl(a.next, a.control)
    IN  /\ chan # <<>>
        /\ ~sb.failed
        /\ sb.pc = "idle"
        /\ c.call \in BkupBeginCalls
        /\ sb' = IF r.result # "ok" THEN begun
                 ELSE [a EXCEPT !.control = IF save_control THEN a.next ELSE a.control,
                                !.held = @ \cup {"gt_TransArrayLock"},
                                !.pc = IF save_control THEN "release_save"
                                       ELSE "release"]
        /\ chan' = Tail(chan)
        /\ UNCHANGED <<tableVars, gt_nextXid, gt_gtm_state, ControlXid, ControlFile,
                       standby, standby_conn, Backup_synchronously, crashed, pc, req,
                       nreq, locks, histVars>>

\* GTM_RWLockRelease(&GTMTransactions.gt_TransArrayLock) on the standby
StandbyRelease ==
    /\ sb.pc \in {"release", "release_save"}
    /\ sb' = [sb EXCEPT !.held = Released(@, "gt_TransArrayLock"),
                        !.pc = IF sb.pc = "release_save" THEN "save_control"
                               ELSE "idle"]
    /\ UNCHANGED <<tableVars, gt_nextXid, gt_gtm_state, ControlXid, ControlFile,
                   standby, standby_conn, Backup_synchronously, chan, crashed, pc,
                   req, nreq, locks, histVars>>

\* SaveControlInfo() on the standby
StandbySaveControlInfo ==
    /\ sb.pc = "save_control"
    /\ sb' = [sb EXCEPT !.file = ControlFileAfter(sb.control), !.pc = "idle"]
    /\ UNCHANGED <<tableVars, gt_nextXid, gt_gtm_state, ControlXid, ControlFile,
                   standby, standby_conn, Backup_synchronously, chan, crashed, pc,
                   req, nreq, locks, histVars>>

\* the standby replays a call that begins nothing
StandbyReplaysOther(asserts) ==
    /\ chan # <<>>
    /\ Head(chan).call \notin BkupBeginCalls
    /\ StandbyReplays(asserts)

(***************************************************************************)
(* SpecLocks: two clients begin transactions with GXIDs and roll them      *)
(* back; the standby replays the calls; the locks held are followed.       *)
(***************************************************************************)
NextLocks ==
    \/ Startup(ReplayStartGxids)
    \/ ConnectStandby(FALSE, 1)
    \/ \E t \in Threads, sids \in {<<"">>, <<"", "">>} :
           ProcessBeginTransactionGetGXIDCommand(
               t, MaxRequestsConc,
               IF Len(sids) = 1 THEN "MSG_TXN_BEGIN_GETGXID"
               ELSE "MSG_TXN_BEGIN_GETGXID_MULTI",
               sids, [i \in 1 .. Len(sids) |-> -1])
    \/ \E t \in Threads, g \in Range(assigned) :
           ReceiveByGXID(t, MaxRequestsConc, "MSG_TXN_ROLLBACK", <<g>>, <<>>,
                         NULLSTR, NULLSTR)
    \/ \E t \in Threads :
           \/ GetGXIDAcquire(t)
           \/ GetGXIDRelease(t)
           \/ SaveControlInfo(t)
           \/ RollbackResolve(t)
           \/ RollbackMark(t)
           \/ RollbackRemove(t)
           \/ MirrorCall(t)
           \/ Reply(t)
    \/ StandbyBeginAcquire
    \/ StandbyRelease
    \/ StandbySaveControlInfo
    \/ StandbyReplaysOther(FALSE)

SpecLocks == Init /\ [][NextLocks]_vars

\* thread t writes the control file in the step
SavesNow(t) == pc[t] = "save_control" /\ pc'[t] # "save_control"

\* the standby writes its control file in the step
StandbySavesNow == sb.pc = "save_control" /\ sb'.pc # "save_control"

\* C30: SaveControlInfo and every call to the standby are made by a thread
\* that holds none of gt_TransArrayLock, gt_XidGenLock or a gti_lock, on the
\* primary and on the standby that replays a begin.
C30_NoLockHeldAtSaveOrMirror ==
    [][/\ \A t \in Threads : (SavesNow(t) \/ MirrorsNow(t)) => req[t].held = {}
       /\ StandbySavesNow => sb.held = {}]_vars

\* both nodes have written their control file after a begin whose GXIDs were
\* assigned under the lock, and the begin was shipped and replayed
C30_Witness ==
    /\ ControlFile # InvalidGlobalTransactionId
    /\ sb.file # InvalidGlobalTransactionId
    /\ sb.pc = "idle"
    /\ \E t \in Threads :
           /\ pc[t] = "idle"
           /\ req[t].op = "MSG_TXN_BEGIN_GETGXID"
           /\ req[t].mirrored
           /\ req[t].held = {}



(***************************************************************************)
(* Sections with their acquire and their release as steps of their own.    *)
(* A thread takes the lock of its next section (Acquire), runs the section *)
(* (one of the actions above) and gives the lock back (Release). A lock is *)
(* a pair: the two locks of the table carry -1, a gti_lock its handle.     *)
(***************************************************************************)
ArrayLock(mode) == [lock |-> <<"gt_TransArrayLock", -1>>, mode |-> mode]
GenLock(mode) == [lock |-> <<"gt_XidGenLock", -1>>, mode |-> mode]
SlotLock(h) == [lock |-> <<"gti_lock", h>>, mode |-> "W"]

\* the lock the code takes next at the position of thread t. Between two
\* requests it is gt_TransArrayLock: for writing in a begin and in the
\* reaper, for reading in the lookup of a GXID.
Needs(t) ==
    CASE pc[t] = "idle" -> {ArrayLock("R"), ArrayLock("W")}
      [] pc[t] = "getgxid" -> {GenLock("W")}
      [] pc[t] \in {"lookup", "commit_wait", "start_prepared_check"} ->
            {ArrayLock("R")}
      [] pc[t] \in {"commit_mark", "rollback_mark"} ->
            {SlotLock(req[t].info[req[t].ii])}
      [] pc[t] \in {"start_prepared_store", "prepare_mark"} ->
            {SlotLock(req[t].info[1])}
      [] pc[t] \in {"commit_remove", "rollback_remove"} -> {ArrayLock("W")}
      [] OTHER -> {}

\* where thread t is in its handler
Position(t) == <<pc[t], req[t], nreq[t]>>

\* GTM_RWLockAcquire returns: nobody holds the lock, or it is held for reading
\* and wanted for reading
Available(l) ==
    \A u \in Threads : \A e \in locks[u].held :
        e.lock = l.lock => (e.mode = "R" /\ l.mode = "R")

\* thread t is in the section of lock l and has not run it yet
Section(t, l) == locks[t].at = Position(t) /\ locks[t].cur = l

\* thread t is in no section
Outside(t) == locks[t].at = <<>>

\* the threads that took the lock for a request they have not served yet
Serving == {u \in Threads : pc[u] = "idle" /\ locks[u].at = Position(u)}

\* requests served in one behaviour of the specification of the sections
MaxRequestsOrder == 3

\* GTM_RWLockAcquire
Acquire(t, l) ==
    /\ ~crashed
    /\ gt_gtm_state # "GTM_STARTING"
    /\ Outside(t)
    /\ l \in Needs(t)
    /\ pc[t] = "idle" => nreq[1] + nreq[2] + Cardinality(Serving) < MaxRequestsOrder
    /\ Available(l)
    /\ locks' = [locks EXCEPT ![t] =
                    [held |-> @.held \cup {l}, cur |-> l, at |-> Position(t)]]
    /\ UNCHANGED <<tableVars, genVars, crashed, pc, req, nreq, histVars>>

\* GTM_RWLockRelease, the section being run
Release(t) ==
    /\ ~Outside(t)
    /\ locks[t].at # Position(t)
    /\ locks' = [locks EXCEPT ![t] =
                    [held |-> Released(@.held, @.cur), cur |-> <<>>, at |-> <<>>]]
    /\ UNCHANGED <<tableVars, genVars, crashed, pc, req, nreq, histVars>>

\* the GXIDs the clients name
OrderGxids == {FirstNormalGlobalTransactionId, FirstNormalGlobalTransactionId + 1}

(***************************************************************************)
(* SpecOrder: two clients begin, commit, roll back, prepare and disconnect *)
(* while the GTM may be shut down; every section takes and releases its    *)
(* lock in steps of its own.                                               *)
(***************************************************************************)
NextOrder ==
    \/ Available(GenLock("W")) /\ Startup({FirstNormalGlobalTransactionId})
    \/ Available(GenLock("W")) /\ GTM_SetShuttingDown
    \/ \E t \in Threads : \E l \in Needs(t) : Acquire(t, l)
    \/ \E t \in Threads : Release(t)
    \/ \E t \in Threads :
           Section(t, ArrayLock("W")) /\
           ProcessBeginTransactionGetGXIDCommand(
               t, MaxRequestsOrder, "MSG_TXN_BEGIN_GETGXID", <<"">>, <<-1>>)
    \/ \E t \in Threads :
           Section(t, ArrayLock("W")) /\ Reap(t, MaxRequestsOrder, -1)
    \/ \E t \in Threads, g \in OrderGxids, w \in {<<>>, <<FirstNormalGlobalTransactionId>>} :
           Section(t, ArrayLock("R")) /\
           ReceiveByGXID(t, MaxRequestsOrder, "MSG_TXN_COMMIT", <<g>>, w,
                         NULLSTR, NULLSTR)
    \/ \E t \in Threads, g \in OrderGxids :
           Section(t, ArrayLock("R")) /\
           ReceiveByGXID(t, MaxRequestsOrder, "MSG_TXN_ROLLBACK", <<g>>, <<>>,
                         NULLSTR, NULLSTR)
    \/ \E t \in Threads :
           Section(t, ArrayLock("R")) /\
           ReceiveByGXID(t, MaxRequestsOrder, "MSG_TXN_ROLLBACK_MULTI",
                         <<FirstNormalGlobalTransactionId,
                           FirstNormalGlobalTransactionId + 1>>, <<>>,
                         NULLSTR, NULLSTR)
    \/ \E t \in Threads, g \in OrderGxids :
           Section(t, ArrayLock("R")) /\
           ReceiveByGXID(t, MaxRequestsOrder, "MSG_TXN_START_PREPARED", <<g>>, <<>>,
                         "G1", "n1")
    \/ \E t \in Threads, g \in OrderGxids :
           Section(t, ArrayLock("R")) /\
           ReceiveByGXID(t, MaxRequestsOrder, "MSG_TXN_PREPARE", <<g>>, <<>>,
                         NULLSTR, NULLSTR)
    \/ \E t \in Threads : Section(t, GenLock("W")) /\ GetGXID(t)
    \/ \E t \in Threads : Section(t, ArrayLock("R")) /\ LookupNext(t)
    \/ \E t \in Threads : Section(t, ArrayLock("R")) /\ CommitWait(t)
    \/ \E t \in Threads : Section(t, ArrayLock("R")) /\ StartPreparedCheck(t)
    \/ \E t \in Threads : \E l \in Needs(t) : Section(t, l) /\ CommitMark(t)
    \/ \E t \in Threads : \E l \in Needs(t) : Section(t, l) /\ RollbackMark(t)
    \/ \E t \in Threads : \E l \in Needs(t) : Section(t, l) /\ StartPreparedStore(t)
    \/ \E t \in Threads : \E l \in Needs(t) : Section(t, l) /\ PrepareMark(t)
    \/ \E t \in Threads : Section(t, ArrayLock("W")) /\ CommitRemove(t)
    \/ \E t \in Threads : Section(t, ArrayLock("W")) /\ RollbackRemove(t)
    \/ \E t \in Threads : Outside(t) /\ CommitResolve(t)
    \/ \E t \in Threads : Outside(t) /\ RollbackResolve(t)
    \/ \E t \in Threads : Outside(t) /\ StartPreparedResolve(t)
    \/ \E t \in Threads : Outside(t) /\ PrepareResolve(t)

SpecOrder == Init /\ [][NextOrder]_vars

\* the place of a lock in the order gt_TransArrayLock, gt_XidGenLock, gti_lock
LockRank(l) ==
    CASE l.lock[1] = "gt_TransArrayLock" -> 1
      [] l.lock[1] = "gt_XidGenLock" -> 2
      [] l.lock[1] = "gti_lock" -> 3

\* thread t has to take a lock to go on and cannot have it
Waiting(t) ==
    /\ ~crashed
    /\ pc[t] # "idle"
    /\ Outside(t)
    /\ Needs(t) # {}
    /\ \A l \in Needs(t) : ~Available(l)

\* thread u holds a lock that thread t is waiting for
Blocks(u, t) ==
    \E l \in Needs(t) : \E e \in locks[u].held : e.lock = l.lock

\* C31: a thread takes a lock only while it holds none that comes later in
\* the order gt_TransArrayLock, gt_XidGenLock, gti_lock, nor the same one; and
\* no interleaving of begins, assignments, commits, rollbacks, prepares,
\* disconnects and the shutdown ends with threads waiting for one another:
\* whoever holds the lock a thread waits for is in a section and will
\* release it.
C31_LockOrderNoDeadlock ==
    /\ [][\A t \in Threads :
            \A l \in locks'[t].held \ locks[t].held :
                \A e \in locks[t].held : LockRank(e) < LockRank(l)]_vars
    /\ [](\A t \in Threads :
            Waiting(t) => \A u \in Threads : Blocks(u, t) => ~Outside(u))

\* a thread waits for gt_TransArrayLock, which the other thread holds in the
\* removal of a commit
C31_Witness ==
    \E t \in Threads, u \in Threads :
        /\ Waiting(t)
        /\ Blocks(u, t)
        /\ pc[u] = "commit_remove"
        /\ Section(u, ArrayLock("W"))



\* C32: every change of the gti_state of a slot is made by a thread that holds
\* the gti_lock of that slot for writing: the initialisation in a begin, the
\* marks of start-prepared, prepare, commit and rollback, and the change to
\* GTM_TXN_ABORTED when the slot is removed.
C32_StateChangedUnderSlotLock ==
    [][\A h \in Handles :
          slots'[h].state # slots[h].state =>
              \E t \in Threads : SlotLock(h) \in locks[t].held]_vars



(***************************************************************************)
(* C33: every write to gt_nextXid and to gt_gtm_state is made with         *)
(* gt_XidGenLock held for writing: on the primary the thread that assigns  *)
(* GXIDs holds it when the step is over (the initializer writes while the  *)
(* server is still starting and serves no reader), and on the standby the  *)
(* replay of a begin holds it when it has moved the next GXID.             *)
(***************************************************************************)
C33_NextXidWrittenUnderGenLock ==
    [][/\ (gt_gtm_state = "GTM_RUNNING"
           /\ (gt_nextXid' # gt_nextXid \/ gt_gtm_state' # gt_gtm_state))
          => \E t \in Threads : "gt_XidGenLock" \in req'[t].held
       /\ (chan # <<>> /\ chan' = Tail(chan) /\ sb'.next # sb.next)
          => "gt_XidGenLock" \in sb'.held]_vars



(***************************************************************************)
(* C34: every change of a slot follows the lifecycle.  The source has no   *)
(* state of its own for a running transaction: a slot in GTM_TXN_STARTING  *)
(* that carries a GXID is taken as Running.                                *)
(***************************************************************************)
\* the slot is Running: started, and a GXID is bound
Running(s) ==
    s.state = "GTM_TXN_STARTING" /\ s.gxid # InvalidGlobalTransactionId

\* the states a slot may be in just before it takes the state new
ComesFrom(old, new) ==
    CASE new = "GTM_TXN_PREPARE_IN_PROGRESS" -> Running(old)
      [] new = "GTM_TXN_PREPARED" -> old.state = "GTM_TXN_PREPARE_IN_PROGRESS"
      [] new \in {"GTM_TXN_COMMIT_IN_PROGRESS", "GTM_TXN_ABORT_IN_PROGRESS"} ->
             old.state \in {"GTM_TXN_STARTING", "GTM_TXN_PREPARE_IN_PROGRESS",
                            "GTM_TXN_PREPARED"}
      [] OTHER -> FALSE

\* one step of one slot along the lifecycle
LifecycleStep(old, new) ==
    /\ (~old.in_use /\ new.in_use) => new.state = "GTM_TXN_STARTING"
    /\ (old.in_use /\ new.in_use /\ new.state # old.state)
           => ComesFrom(old, new.state)
    /\ (old.in_use /\ ~new.in_use)
           => /\ new.state = "GTM_TXN_ABORTED"
              /\ old.state \in {"GTM_TXN_COMMIT_IN_PROGRESS",
                                "GTM_TXN_ABORT_IN_PROGRESS"}

\* C34: every step of the server moves every slot along the lifecycle:
\* Starting at allocation, PrepareInProgress only from Running, Prepared only
\* from PrepareInProgress, freed only from CommitInProgress or AbortInProgress
C34_SlotFollowsLifecycle ==
    [][\A h \in Handles : LifecycleStep(slots[h], slots'[h])]_vars



(***************************************************************************)
(* C35: a begin that fails because the array is full leaves the table as   *)
(* it was before the call.                                                 *)
(***************************************************************************)
\* the step is a begin request of thread t that fails on the full array
BeginFails(t) ==
    /\ pc[t] = "idle"
    /\ nreq'[t] # nreq[t]
    /\ req'[t].op \in {"MSG_TXN_BEGIN", "MSG_TXN_BEGIN_GETGXID",
                       "MSG_TXN_BEGIN_GETGXID_MULTI"}
    /\ req'[t].result = "error"

\* C35: a begin, single or batched, that fails with the array full leaves the
\* slots, the list of open transactions and gt_lastslot unchanged
C35_FailedBeginLeavesTable ==
    [][\A t \in Threads :
           BeginFails(t) => /\ slots' = slots
                            /\ open_list' = open_list
                            /\ gt_lastslot' = gt_lastslot]_vars



(***************************************************************************)
(* C36: commit, rollback, their batched forms and prepare call the standby *)
(* only for GXIDs whose transaction the request has changed.               *)
(***************************************************************************)
\* the calls to the standby that replay a commit, a rollback or a prepare
FinishCalls ==
    {"bkup_commit_transaction", "bkup_commit_transaction_multi",
     "bkup_abort_transaction", "bkup_abort_transaction_multi",
     "bkup_prepare_transaction"}

\* the step is the call of thread t to the standby, one of calls
CallsStandby(t, calls) ==
    /\ pc[t] = "mirror"
    /\ pc'[t] # "mirror"
    /\ chan' = Append(chan, req[t].call)
    /\ req[t].call.call \in calls

\* C36: whenever a commit, rollback, batched commit or rollback, or prepare
\* calls the standby, every GXID of the call resolved to an open transaction
\* and the operation on it succeeded (STATUS_OK)
C36_MirrorOnlyForChange ==
    [][\A t \in Threads :
           CallsStandby(t, FinishCalls)
               => /\ Len(req[t].status) = Len(req[t].call.gxid)
                  /\ \A i \in 1 .. Len(req[t].call.gxid) :
                         req[t].status[i] = "STATUS_OK"]_vars



(***************************************************************************)
(* C37: a commit or a rollback of GXID g marks and removes only a slot     *)
(* that carries g at that moment.                                          *)
(***************************************************************************)
\* thread t takes the step that leaves position p of its handler
Leaves(t, p) == pc[t] = p /\ (pc'[t] # p \/ req'[t] # req[t])

\* C37: the slot a commit or rollback marks carries the GXID of the request at
\* the moment of the mark, and every slot its removal frees carries one of the
\* GXIDs of the request at the moment of the removal
C37_RemovesOnlyItsGXID ==
    [][\A t \in Threads :
           /\ (Leaves(t, "commit_mark") \/ Leaves(t, "rollback_mark"))
                  => slots[req[t].info[req[t].ii]].gxid = req[t].gxid[req[t].ii]
           /\ (Leaves(t, "commit_remove") \/ Leaves(t, "rollback_remove"))
                  => \A h \in Handles :
                         (slots[h].in_use /\ ~slots'[h].in_use)
                             => slots[h].gxid \in Range(req[t].gxid)]_vars



(***************************************************************************)
(* C38: a commit that waits for a GXID of its own batch is delayed for as  *)
(* long as that transaction is open.                                       *)
(***************************************************************************)
\* the commit request r waits for a GXID it is to commit itself, and the
\* transaction of that GXID is open
WaitsForItself(r) ==
    /\ r.op \in {"MSG_TXN_COMMIT", "MSG_TXN_COMMIT_PREPARED"}
    /\ \E w \in Range(r.waited) \cap Range(r.gxid) : w \in OpenGxids

\* C38: every step of a commit that waits for an open transaction of its own
\* batch leaves all slots and the list of open transactions as they are, and
\* the status it sets for a handle that resolved is STATUS_DELAYED: neither
\* the transaction waited for nor any other of the batch is committed
C38_SelfWaitingCommitDelayed ==
    [][\A t \in Threads :
           (WaitsForItself(req[t]) /\ StepOf(t) /\ pc[t] # "idle")
               => /\ slots' = slots
                  /\ open_list' = open_list
                  /\ gt_latestCompletedXid' = gt_latestCompletedXid
                  /\ \A i \in 1 .. Len(req'[t].status) :
                         /\ req'[t].status[i] # "STATUS_OK"
                         /\ (i > Len(req[t].status) /\ req'[t].info[i] # NULL)
                                => req'[t].status[i] = "STATUS_DELAYED"]_vars

\* a client has sent for the second time a MSG_TXN_COMMIT_PREPARED that waits
\* for the first of its two GXIDs; both transactions are still open and both
\* were answered STATUS_DELAYED again
C38_Witness ==
    \E t \in Threads :
        /\ pc[t] = "idle"
        /\ req[t].op = "MSG_TXN_COMMIT_PREPARED"
        /\ req[t].retry
        /\ req[t].waited = <<req[t].gxid[1]>>
        /\ req[t].status = <<"STATUS_DELAYED", "STATUS_DELAYED">>
        /\ Range(req[t].gxid) \subseteq OpenGxids



(***************************************************************************)
(* C39: no two open transactions share a global session.                   *)
(***************************************************************************)
\* the slots on gt_open_transactions that carry the session sid
OpenOn(sid) == {h \in Range(open_list) : slots[h].session_id = sid}

\* C39: at every moment at most one slot on the list of open transactions
\* carries any given non-empty global session ID
C39_OneOpenSlotPerSession ==
    \A h1, h2 \in Range(open_list) :
        (slots[h1].session_id # "" /\ slots[h1].session_id = slots[h2].session_id)
            => h1 = h2

\* both clients have begun on session S1, one of them in a batch with a
\* transaction of no session: they were answered with the same slot, which is
\* the only open one on S1, and another transaction is open beside it
C39_Witness ==
    /\ \A t \in Threads :
           /\ pc[t] = "idle"
           /\ req[t].op \in {"MSG_TXN_BEGIN", "MSG_TXN_BEGIN_GETGXID",
                             "MSG_TXN_BEGIN_GETGXID_MULTI"}
           /\ "S1" \in Range(req[t].sess)
           /\ req[t].result = "ok"
           /\ OpenOn("S1") \subseteq Range(req[t].txn)
    /\ \E t \in Threads : Len(req[t].sess) = 2
    /\ Cardinality(OpenOn("S1")) = 1
    /\ Len(open_list) >= 2

=============================================================================
